---- MODULE Spec2Model ----
(***************************************************************************)
(* A model of the emb.rs hardware abstraction layer: the packed-bitfield   *)
(* arithmetic of bits.rs, the typed RCC / Flash register views built on    *)
(* it, the clock reconfiguration sequence Rcc::configure_clocks, and the   *)
(* exclusive load/store loop behind Rcc::enable_clock.                     *)
(*                                                                         *)
(* Registers are 32-bit words, held as the set of their 1 bits.  Rust      *)
(* values are represented as follows: bool as BOOLEAN, a bit_enum variant  *)
(* as its name (a string), a u32 field of ClockConfig as a natural,        *)
(* Option<T> as <<>> (None) or <<v>> (Some(v)), and                        *)
(* BitsResult<T> as <<"Ok", v>> or <<"Err", bits>>.                        *)
(***************************************************************************)
EXTENDS Integers, Sequences, FiniteSets, TLC

VARIABLES
    \* RCC and Flash registers (rcc/raw.rs Registers, flash.rs Registers)
    cr, cfgr, pllcfgr, acr,
    \* Whether the external crystal oscillator works (it may never start)
    hse_ok,
    \* Rcc::configure_clocks: position, argument, closure input, histories
    pc, cfg, tmp, wlog, obs, calls, entry,
    \* Rcc::enable_clock: the ENR registers and their initial content, the
    \* exclusive monitor, the foreground call (thr.fg) and the interrupt
    \* handler's call (thr.irq), the interrupts taken, the event history
    ahb_enr, apb_enr, enr0, monitor, thr, irqs, elog,
    \* bits.rs functions applied to drawn inputs
    bf,
    \* A generated accessor or conversion applied to drawn inputs
    fd,
    \* ClockConfig::compute_speeds applied to a drawn configuration
    spd,
    \* The register bits that interrupt handlers have set during
    \* configure_clocks
    isr,
    \* A GPIO port's AFRL and AFRH and a set_alternate_function call on it
    gp,
    \* The NVIC's priority bytes and a set_priority / get_priority call
    nv,
    \* A Reg<u32> under atomic_or / atomic_nand / atomic_nand_and_or with
    \* an interrupt handler writing the same register
    rmw,
    \* Memory, section bounds and the position of the reset routine
    boot

clockVars == <<cr, cfgr, pllcfgr, acr, hse_ok, pc, cfg, tmp, wlog, obs, calls, entry>>

enableVars == <<ahb_enr, apb_enr, enr0, monitor, thr, irqs, elog>>

bitsVars == <<bf>>

fieldVars == <<fd>>

speedVars == <<spd>>

irqVars == <<isr>>

gpioVars == <<gp>>

nvicVars == <<nv>>

atomicVars == <<rmw>>

bootVars == <<boot>>

vars == <<clockVars, enableVars, bitsVars, fieldVars, speedVars, irqVars, gpioVars, nvicVars, atomicVars, bootVars>>

nonClockVars == <<enableVars, bitsVars, fieldVars, speedVars, irqVars, gpioVars, nvicVars, atomicVars, bootVars>>

nonEnableVars == <<clockVars, bitsVars, fieldVars, speedVars, irqVars, gpioVars, nvicVars, atomicVars, bootVars>>

nonBitsVars == <<clockVars, enableVars, fieldVars, speedVars, irqVars, gpioVars, nvicVars, atomicVars, bootVars>>

nonFieldVars == <<clockVars, enableVars, bitsVars, speedVars, irqVars, gpioVars, nvicVars, atomicVars, bootVars>>

nonSpeedVars == <<clockVars, enableVars, bitsVars, fieldVars, irqVars, gpioVars, nvicVars, atomicVars, bootVars>>

nonGpioVars == <<clockVars, enableVars, bitsVars, fieldVars, speedVars, irqVars,
                 nvicVars, atomicVars, bootVars>>

nonNvicVars == <<clockVars, enableVars, bitsVars, fieldVars, speedVars, irqVars,
                 gpioVars, atomicVars, bootVars>>

nonAtomicVars == <<clockVars, enableVars, bitsVars, fieldVars, speedVars, irqVars,
                   gpioVars, nvicVars, bootVars>>

nonBootVars == <<clockVars, enableVars, bitsVars, fieldVars, speedVars, irqVars,
                 gpioVars, nvicVars, atomicVars>>

----------------------------------------------------------------------------
(* 32-bit word arithmetic.  A u32 is held as the set of the positions of    *)
(* its 1 bits, a subset of 0..31, so that all 32 bits are available.        *)

\* core::mem::size_of::<u32>() * 8
RegWidth == 32

BitPositions == 0 .. (RegWidth - 1)

\* The u32 with value n, for a natural n below 2^31
FromNat(n) == {i \in 0 .. 30 : (n \div (2 ^ i)) % 2 = 1}

RECURSIVE ToNat(_)
\* The value of a u32 whose bit 31 is clear
ToNat(a) ==
    IF a = {} THEN 0
    ELSE LET i == CHOOSE k \in a : TRUE IN (2 ^ i) + ToNat(a \ {i})

\* !0 on u32
AllOnes == BitPositions

\* a >> n on u32
Shr(a, n) == {i - n : i \in {j \in a : j >= n}}

\* a << n on u32: bits shifted past bit 31 are dropped
Shl(a, n) == {i + n : i \in {j \in a : j + n < RegWidth}}

\* !a on u32
Not(a) == BitPositions \ a

\* a & b
And(a, b) == a \cap b

\* a | b
Or(a, b) == a \cup b

\* a - 1 on u32 (binary decrement: the lowest 1 bit is cleared and the bits
\* below it are set; 0 - 1 wraps to all ones)
Sub1(a) ==
    IF a = {} THEN AllOnes
    ELSE LET k == CHOOSE i \in a : \A j \in a : i <= j
         IN  (a \ {k}) \cup (0 .. (k - 1))

----------------------------------------------------------------------------
(* bits.rs                                                                  *)

\* A mask computed without the test for the full width: the shift amount
\* wraps to 0
FieldMaskWrapping(hi, lo) ==
    LET width == hi - lo + 1
    IN  Sub1(Shl(FromNat(1), width % RegWidth))

\* The mask of bitfield_extract / bitfield_replace.
FieldMask(hi, lo) ==
    LET width == hi - lo + 1
    IN  IF width < RegWidth THEN Sub1(Shl(FromNat(1), width)) ELSE AllOnes

\* An extract that forgets to shift the field down
bitfield_extract_unshifted(v, hi, lo) == And(v, FieldMask(hi, lo))

bitfield_extract(v, hi, lo) == And(Shr(v, lo), FieldMask(hi, lo))

\* A replace that forgets to mask `new`.
bitfield_replace_unmasked(orig, hi, lo, new) ==
    LET mask == FieldMask(hi, lo)
    IN  Or(And(orig, Not(Shl(mask, lo))), Shl(new, lo))

bitfield_replace(orig, hi, lo, new) ==
    LET mask == FieldMask(hi, lo)
    IN  Or(And(orig, Not(Shl(mask, lo))), Shl(And(new, mask), lo))

\* impl FromBits for bool
bool_from_bits(bits) ==
    CASE bits = FromNat(0) -> <<"Ok", FALSE>>
      [] bits = FromNat(1) -> <<"Ok", TRUE>>
      [] OTHER    -> <<"Err", bits>>

\* impl FromBitsTotal for u8 (bits as u8); a u8 is a natural
u8_from_bits_total(bits) ==
    IF \E b \in bits : b > 7 THEN "unreachable" ELSE ToNat(bits)

\* impl IntoBits for u8 (self as u32)
u8_into_bits(n) == FromNat(n)

\* impl IntoBits for bool
bool_into_bits(b) == IF b THEN FromNat(1) ELSE FromNat(0)

\* impl FromBitsTotal for bool; "unreachable" stands for unreachable!()
bool_from_bits_total(bits) ==
    CASE bits = FromNat(0) -> FALSE
      [] bits = FromNat(1) -> TRUE
      [] OTHER    -> "unreachable"

\* impl IntoBits for u32 / impl FromBitsTotal for u32 (identity); a
\* ClockConfig field n is the u32 FromNat(n)
u32_into_bits(n) == FromNat(n)

\* An encoding that keeps only the lowest bit of the discriminant
enum_into_bits_low(E, v) == FromNat(E[v] % 2)

\* bit_enums!: IntoBits (self as u32); E maps each variant name to its value
enum_into_bits(E, v) == FromNat(E[v])

\* A decoder that falls back to the variant of the lowest value
enum_from_bits_default(E, bits) ==
    IF \E n \in DOMAIN E : FromNat(E[n]) = bits
    THEN <<"Ok", CHOOSE n \in DOMAIN E : FromNat(E[n]) = bits>>
    ELSE <<"Ok", CHOOSE n \in DOMAIN E : \A m \in DOMAIN E : E[n] <= E[m]>>

\* bit_enums!: FromBits
enum_from_bits(E, bits) ==
    IF \E n \in DOMAIN E : FromNat(E[n]) = bits
    THEN <<"Ok", CHOOSE n \in DOMAIN E : FromNat(E[n]) = bits>>
    ELSE <<"Err", bits>>

\* bit_enums!: FromBitsTotal
enum_from_bits_total(E, bits) ==
    IF \E n \in DOMAIN E : FromNat(E[n]) = bits
    THEN CHOOSE n \in DOMAIN E : FromNat(E[n]) = bits
    ELSE "unreachable"

----------------------------------------------------------------------------
(* stm32f4/rcc/raw.rs: bit_enums and the accessors of Cr, Cfgr, Pllcfgr     *)

ApbPrescaler == [Div2 |-> 0, Div4 |-> 1, Div8 |-> 2, Div16 |-> 3]

\* An AHB prescaler type without a variant for 0b100
AhbPrescalerSparse ==
    [Div2 |-> 0, Div4 |-> 1, Div8 |-> 2, Div16 |-> 3,
     Div128 |-> 5, Div256 |-> 6, Div512 |-> 7]

AhbPrescaler ==
    [Div2 |-> 0, Div4 |-> 1, Div8 |-> 2, Div16 |-> 3,
     Div64 |-> 4, Div128 |-> 5, Div256 |-> 6, Div512 |-> 7]

ClockSwitch == [Hsi |-> 0, Hse |-> 1, Pll |-> 2]

PllSource == [Hsi |-> 0, Hse |-> 1]

Pllp == [Div2 |-> 0, Div4 |-> 1, Div6 |-> 2, Div8 |-> 3]

\* Cr
get_pllrdy(v) == bool_from_bits_total(bitfield_extract(v, 25, 25))

get_pllon(v) == bool_from_bits_total(bitfield_extract(v, 24, 24))

\* A with_pllon that builds the word from the PLLON bit alone
with_pllon_alone(v, b) == Shl(bool_into_bits(b), 24)

with_pllon(v, b) == bitfield_replace(v, 24, 24, bool_into_bits(b))

with_csson(v, b) == bitfield_replace(v, 19, 19, bool_into_bits(b))

get_hserdy(v) == bool_from_bits_total(bitfield_extract(v, 17, 17))

get_hseon(v) == bool_from_bits_total(bitfield_extract(v, 16, 16))

with_hseon(v, b) == bitfield_replace(v, 16, 16, bool_into_bits(b))

get_hsirdy(v) == bool_from_bits_total(bitfield_extract(v, 1, 1))

get_hsion(v) == bool_from_bits_total(bitfield_extract(v, 0, 0))

with_hsion(v, b) == bitfield_replace(v, 0, 0, bool_into_bits(b))

\* Cfgr
\* A decoding of SWS that takes a pattern without a variant for the first
get_sws_default(v) ==
    enum_from_bits_default(ClockSwitch, bitfield_extract(v, 3, 2))

get_sws(v) == enum_from_bits(ClockSwitch, bitfield_extract(v, 3, 2))

get_sw(v) == enum_from_bits(ClockSwitch, bitfield_extract(v, 1, 0))

with_sw(v, x) == bitfield_replace(v, 1, 0, enum_into_bits(ClockSwitch, x))

\* en_option_accessors!: $get_opt, for enable bit en and divisor field [hi:lo]
en_option_get(v, en, hi, lo, E) ==
    IF bool_from_bits_total(bitfield_extract(v, en, en))
    THEN <<enum_from_bits_total(E, bitfield_extract(v, hi, lo))>>
    ELSE <<>>

\* A $with_opt that also clears the divisor bits when given None
en_option_with_clearing(v, en, hi, lo, E, x) ==
    IF x # <<>>
    THEN bitfield_replace(
             bitfield_replace(v, hi, lo, enum_into_bits(E, x[1])),
             en, en, bool_into_bits(TRUE))
    ELSE bitfield_replace(v, en, lo, FromNat(0))

\* en_option_accessors!: $with_opt
en_option_with(v, en, hi, lo, E, x) ==
    IF x # <<>>
    THEN bitfield_replace(
             bitfield_replace(v, hi, lo, enum_into_bits(E, x[1])),
             en, en, bool_into_bits(TRUE))
    ELSE bitfield_replace(v, en, en, bool_into_bits(FALSE))

McoPre == [Div2 |-> 0, Div3 |-> 1, Div4 |-> 2, Div5 |-> 3]

get_mco2pre(v) == en_option_get(v, 29, 28, 27, McoPre)

with_mco2pre(v, x) == en_option_with(v, 29, 28, 27, McoPre, x)

get_mco1pre(v) == en_option_get(v, 26, 25, 24, McoPre)

with_mco1pre(v, x) == en_option_with(v, 26, 25, 24, McoPre, x)

get_ppre2(v) == en_option_get(v, 15, 14, 13, ApbPrescaler)

with_ppre2(v, x) == en_option_with(v, 15, 14, 13, ApbPrescaler, x)

get_ppre1(v) == en_option_get(v, 12, 11, 10, ApbPrescaler)

with_ppre1(v, x) == en_option_with(v, 12, 11, 10, ApbPrescaler, x)

get_hpre(v) == en_option_get(v, 7, 6, 4, AhbPrescaler)

with_hpre(v, x) == en_option_with(v, 7, 6, 4, AhbPrescaler, x)

\* Pllcfgr
get_pllq(v) == bitfield_extract(v, 27, 24)

with_pllq(v, x) == bitfield_replace(v, 27, 24, u32_into_bits(x))

get_pllsrc(v) == enum_from_bits_total(PllSource, bitfield_extract(v, 22, 22))

\* with_pllsrc on the wrong bit
with_pllsrc_bit21(v, x) ==
    bitfield_replace(v, 21, 21, enum_into_bits(PllSource, x))

with_pllsrc(v, x) == bitfield_replace(v, 22, 22, enum_into_bits(PllSource, x))

get_pllp(v) == enum_from_bits_total(Pllp, bitfield_extract(v, 17, 16))

with_pllp(v, x) == bitfield_replace(v, 17, 16, enum_into_bits(Pllp, x))

get_plln(v) == bitfield_extract(v, 14, 6)

with_plln(v, x) == bitfield_replace(v, 14, 6, u32_into_bits(x))

get_pllm(v) == bitfield_extract(v, 5, 0)

with_pllm(v, x) == bitfield_replace(v, 5, 0, u32_into_bits(x))

\* stm32f4/flash.rs: Acr
with_prften(v, b) == bitfield_replace(v, 8, 8, bool_into_bits(b))

get_latency(v) == bitfield_extract(v, 2, 0)

with_latency(v, x) == bitfield_replace(v, 2, 0, u32_into_bits(x))

----------------------------------------------------------------------------
(* The clock hardware behind the RCC registers                              *)

\* Cr bits owned by hardware (the ready flags and HSICAL): writes leave them
CrReadOnly == {1, 17, 25, 27} \cup (8 .. 15)

\* Cfgr bits owned by hardware: SWS
CfgrReadOnly == {2, 3}

\* The word a register holds after software stores v: read-only bits keep
\* the hardware's value.
Stored(old, v, readOnly) == Or(And(v, Not(readOnly)), And(old, readOnly))

\* Is the clock source selected by SW ready to take over?
SourceReady(sw) ==
    CASE sw = <<"Ok", "Hsi">> -> get_hsirdy(cr)
      [] sw = <<"Ok", "Hse">> -> get_hserdy(cr)
      [] sw = <<"Ok", "Pll">> -> get_pllrdy(cr)
      [] OTHER -> FALSE

\* HSIRDY is set some time after HSION
HwHsiReady ==
    /\ get_hsion(cr) /\ ~get_hsirdy(cr)
    /\ cr' = bitfield_replace(cr, 1, 1, FromNat(1))
    /\ UNCHANGED <<cfgr, pllcfgr, acr, pc, cfg, tmp, wlog, obs, calls, entry, hse_ok, nonClockVars>>

\* HSERDY is set some time after HSEON, if the crystal oscillates at all
HwHseReady ==
    /\ hse_ok
    /\ get_hseon(cr) /\ ~get_hserdy(cr)
    /\ cr' = bitfield_replace(cr, 17, 17, FromNat(1))
    /\ UNCHANGED <<cfgr, pllcfgr, acr, pc, cfg, tmp, wlog, obs, calls, entry, hse_ok, nonClockVars>>

\* PLLRDY is set some time after PLLON (the PLL locks)
HwPllLock ==
    /\ get_pllon(cr) /\ ~get_pllrdy(cr)
    /\ cr' = bitfield_replace(cr, 25, 25, FromNat(1))
    /\ UNCHANGED <<cfgr, pllcfgr, acr, pc, cfg, tmp, wlog, obs, calls, entry, hse_ok, nonClockVars>>

\* PLLRDY is cleared some time after PLLON is cleared
HwPllUnlock ==
    /\ ~get_pllon(cr) /\ get_pllrdy(cr)
    /\ cr' = bitfield_replace(cr, 25, 25, FromNat(0))
    /\ UNCHANGED <<cfgr, pllcfgr, acr, pc, cfg, tmp, wlog, obs, calls, entry, hse_ok, nonClockVars>>

\* SWS follows SW once the selected source is ready
HwSwitch ==
    /\ bitfield_extract(cfgr, 3, 2) # bitfield_extract(cfgr, 1, 0)
    /\ SourceReady(get_sw(cfgr))
    /\ cfgr' = bitfield_replace(cfgr, 3, 2, bitfield_extract(cfgr, 1, 0))
    /\ UNCHANGED <<cr, pllcfgr, acr, pc, cfg, tmp, wlog, obs, calls, entry, hse_ok, nonClockVars>>

----------------------------------------------------------------------------
(* stm32f4/rcc/mod.rs: Rcc::configure_clocks                                *)

\* Number of configure_clocks calls explored in a row
MaxCalls == 2

\* configure_clocks with the PLL switched on before the bus dividers and the
\* Flash latency are applied
ProgramOrderPllFirst ==
    << "hsion_rd", "hsion_wr", "hsirdy_poll",
       "sw_hsi_rd", "sw_hsi_wr", "sws_hsi_poll",
       "plloff_rd", "plloff_wr", "pllrdy_clr_poll",
       "hseon_rd", "hseon_wr", "hserdy_poll",
       "pllcfgr_rd", "pllcfgr_wr",
       "pllon_rd", "pllon_wr", "pllrdy_poll",
       "pre_rd", "pre_wr",
       "lat_rd", "lat_wr",
       "sw_pll_rd", "sw_pll_wr", "sws_pll_poll",
       "done" >>

\* The statements of configure_clocks in program order.  An update_x(f) is
\* two steps: the register read that feeds the closure (_rd) and the store
\* of the closure's result (_wr).  Each while loop is one _poll step.
ProgramOrder ==
    << "hsion_rd", "hsion_wr", "hsirdy_poll",
       "sw_hsi_rd", "sw_hsi_wr", "sws_hsi_poll",
       "plloff_rd", "plloff_wr", "pllrdy_clr_poll",
       "pre_rd", "pre_wr",
       "lat_rd", "lat_wr",
       "hseon_rd", "hseon_wr", "hserdy_poll",
       "pllcfgr_rd", "pllcfgr_wr",
       "pllon_rd", "pllon_wr", "pllrdy_poll",
       "sw_pll_rd", "sw_pll_wr", "sws_pll_poll",
       "done" >>

\* The statement that follows label l.
NextPc(l) ==
    LET i == CHOOSE k \in 1..Len(ProgramOrder) : ProgramOrder[k] = l
    IN  ProgramOrder[i + 1]

Polls ==
    {"hsirdy_poll", "sws_hsi_poll", "pllrdy_clr_poll",
     "hserdy_poll", "pllrdy_poll", "sws_pll_poll"}

\* read_x() feeding the closure of update_x
UpdateRead(l, reg) ==
    /\ pc = l
    /\ tmp' = reg
    /\ pc' = NextPc(l)
    /\ UNCHANGED <<cr, cfgr, pllcfgr, acr, cfg, wlog, obs, calls, entry, hse_ok, nonClockVars>>

\* The write log entry of a store of v to register name r holding old
Logged(r, old, v) == Append(wlog, [reg |-> r, val |-> v, old |-> old])

\* write_cr(v)
WriteCr(l, v) ==
    /\ pc = l
    /\ cr' = Stored(cr, v, CrReadOnly)
    /\ wlog' = Logged("cr", cr, v)
    /\ pc' = NextPc(l)
    /\ UNCHANGED <<cfgr, pllcfgr, acr, cfg, tmp, obs, calls, entry, hse_ok, nonClockVars>>

\* write_cfgr(v)
WriteCfgr(l, v) ==
    /\ pc = l
    /\ cfgr' = Stored(cfgr, v, CfgrReadOnly)
    /\ wlog' = Logged("cfgr", cfgr, v)
    /\ pc' = NextPc(l)
    /\ UNCHANGED <<cr, pllcfgr, acr, cfg, tmp, obs, calls, entry, hse_ok, nonClockVars>>

\* while <condition on a fresh read of reg> {}: stay unless the read ends it
Poll(l, reg, exit) ==
    /\ pc = l
    /\ obs' = [obs EXCEPT ![l] = <<reg>>]
    /\ pc' = IF exit THEN NextPc(l) ELSE l
    /\ UNCHANGED <<cr, cfgr, pllcfgr, acr, cfg, tmp, wlog, calls, entry, hse_ok, nonClockVars>>

\* write_pllcfgr(v)
WritePllcfgr(l, v) ==
    /\ pc = l
    /\ pllcfgr' = v
    /\ wlog' = Logged("pllcfgr", pllcfgr, v)
    /\ pc' = NextPc(l)
    /\ UNCHANGED <<cr, cfgr, acr, cfg, tmp, obs, calls, entry, hse_ok, nonClockVars>>

\* FLASH.write_acr(v)
WriteAcr(l, v) ==
    /\ pc = l
    /\ acr' = v
    /\ wlog' = Logged("acr", acr, v)
    /\ pc' = NextPc(l)
    /\ UNCHANGED <<cr, cfgr, pllcfgr, cfg, tmp, obs, calls, entry, hse_ok, nonClockVars>>

\* main.rs CLOCKS
Clocks ==
    [crystal_hz |-> 8000000, crystal_divisor |-> 4, vco_multiplier |-> 160,
     general_divisor |-> "Div2", pll48_divisor |-> 4,
     ahb_divisor |-> <<>>, apb1_divisor |-> <<"Div4">>,
     apb2_divisor |-> <<"Div2">>, flash_latency |-> 5]

\* A ClockConfig whose u32 fields exceed the width of their register fields
WideClocks ==
    [crystal_hz |-> 8000000, crystal_divisor |-> 72, vco_multiplier |-> 612,
     general_divisor |-> "Div8", pll48_divisor |-> 23,
     ahb_divisor |-> <<"Div512">>, apb1_divisor |-> <<>>,
     apb2_divisor |-> <<"Div16">>, flash_latency |-> 13]

Configs == {Clocks, WideClocks}

\* pub fn configure_clocks(&self, cfg: &ClockConfig), on entry
Call ==
    /\ pc \in {"idle", "done"}
    /\ calls < MaxCalls
    /\ \E c \in Configs : cfg' = c
    /\ pc' = ProgramOrder[1]
    /\ calls' = calls + 1
    /\ wlog' = <<>>
    /\ obs' = [l \in Polls |-> <<>>]
    /\ entry' = [cr |-> cr, cfgr |-> cfgr, pllcfgr |-> pllcfgr, acr |-> acr]
    /\ UNCHANGED <<cr, cfgr, pllcfgr, acr, tmp, hse_ok, nonClockVars>>

\* self.update_cr(|v| v.with_hsion(true));
UpdateHsion ==
    \/ UpdateRead("hsion_rd", cr)
    \/ WriteCr("hsion_wr", with_hsion(tmp, TRUE))

\* while !self.read_cr().get_hsirdy() {}
PollHsirdy == Poll("hsirdy_poll", cr, get_hsirdy(cr))

\* self.update_cfgr(|v| v.with_sw(raw::ClockSwitch::Hsi));
UpdateSwHsi ==
    \/ UpdateRead("sw_hsi_rd", cfgr)
    \/ WriteCfgr("sw_hsi_wr", with_sw(tmp, "Hsi"))

\* The switch to HSI not waited for
PollSwsHsiNoWait == Poll("sws_hsi_poll", cfgr, TRUE)

\* while self.read_cfgr().get_sws() != Ok(raw::ClockSwitch::Hsi) {}
PollSwsHsi == Poll("sws_hsi_poll", cfgr, get_sws(cfgr) = <<"Ok", "Hsi">>)

\* self.update_cr(|v| v.with_pllon(false));
UpdatePllOff ==
    \/ UpdateRead("plloff_rd", cr)
    \/ WriteCr("plloff_wr", with_pllon(tmp, FALSE))

\* The PLL's unlocking not waited for
PollPllrdyClearNoWait == Poll("pllrdy_clr_poll", cr, TRUE)

\* while self.read_cr().get_pllrdy() {}
PollPllrdyClear == Poll("pllrdy_clr_poll", cr, ~get_pllrdy(cr))

\* self.update_cfgr(|v| v.with_hpre(..).with_ppre1(..).with_ppre2(..));
UpdatePrescalers ==
    \/ UpdateRead("pre_rd", cfgr)
    \/ WriteCfgr("pre_wr",
                 with_ppre2(with_ppre1(with_hpre(tmp, cfg.ahb_divisor),
                                       cfg.apb1_divisor),
                            cfg.apb2_divisor))

\* FLASH.update_acr(|v| v.with_latency(cfg.flash_latency));
UpdateLatency ==
    \/ UpdateRead("lat_rd", acr)
    \/ WriteAcr("lat_wr", with_latency(tmp, cfg.flash_latency))

\* self.update_cr(|v| v.with_hseon(true));
UpdateHseon ==
    \/ UpdateRead("hseon_rd", cr)
    \/ WriteCr("hseon_wr", with_hseon(tmp, TRUE))

\* The HSE oscillator's start not waited for
PollHserdyNoWait == Poll("hserdy_poll", cr, TRUE)

\* while !self.read_cr().get_hserdy() {}
PollHserdy == Poll("hserdy_poll", cr, get_hserdy(cr))

\* An update of PLLCFGR that leaves the PLL source as it was
UpdatePllcfgrNoSource ==
    \/ UpdateRead("pllcfgr_rd", pllcfgr)
    \/ WritePllcfgr("pllcfgr_wr",
           with_pllq(
               with_pllp(
                   with_plln(with_pllm(tmp, cfg.crystal_divisor),
                             cfg.vco_multiplier),
                   cfg.general_divisor),
               cfg.pll48_divisor))

\* self.update_pllcfgr(|v| v.with_pllm(..).with_plln(..).with_pllp(..)
\*                          .with_pllq(..).with_pllsrc(raw::PllSource::Hse));
UpdatePllcfgr ==
    \/ UpdateRead("pllcfgr_rd", pllcfgr)
    \/ WritePllcfgr("pllcfgr_wr",
           with_pllsrc(
               with_pllq(
                   with_pllp(
                       with_plln(with_pllm(tmp, cfg.crystal_divisor),
                                 cfg.vco_multiplier),
                       cfg.general_divisor),
                   cfg.pll48_divisor),
               "Hse"))

\* self.update_cr(|v| v.with_pllon(true));
UpdatePllOn ==
    \/ UpdateRead("pllon_rd", cr)
    \/ WriteCr("pllon_wr", with_pllon(tmp, TRUE))

\* The PLL's lock not waited for
PollPllrdyNoWait == Poll("pllrdy_poll", cr, TRUE)

\* while !self.read_cr().get_pllrdy() {}
PollPllrdy == Poll("pllrdy_poll", cr, get_pllrdy(cr))

\* self.update_cfgr(|v| v.with_sw(raw::ClockSwitch::Pll));
UpdateSwPll ==
    \/ UpdateRead("sw_pll_rd", cfgr)
    \/ WriteCfgr("sw_pll_wr", with_sw(tmp, "Pll"))

\* The final poll comparing against the wrong clock source
PollSwsPllWrongSource ==
    Poll("sws_pll_poll", cfgr, get_sws(cfgr) = <<"Ok", "Hse">>)

\* while self.read_cfgr().get_sws() != Ok(raw::ClockSwitch::Pll) {}
PollSwsPll == Poll("sws_pll_poll", cfgr, get_sws(cfgr) = <<"Ok", "Pll">>)

\* The steps of configure_clocks up to and including the HSE-ready poll
ConfigureUpToHse ==
    \/ UpdateHsion \/ PollHsirdy \/ UpdateSwHsi \/ PollSwsHsi
    \/ UpdatePllOff \/ PollPllrdyClear \/ UpdatePrescalers \/ UpdateLatency
    \/ UpdateHseon \/ PollHserdy

\* The steps of configure_clocks after the HSE-ready poll
ConfigureAfterHse ==
    \/ UpdatePllcfgr \/ UpdatePllOn \/ PollPllrdy \/ UpdateSwPll \/ PollSwsPll

\* The clock hardware, except for the HSE oscillator becoming ready
HardwareExceptHse == HwHsiReady \/ HwPllLock \/ HwPllUnlock \/ HwSwitch

----------------------------------------------------------------------------
(* stm32f4/rcc/mod.rs: peripheral identities (all soc_family features on)   *)

AhbBus == [Ahb1 |-> 0, Ahb2 |-> 1, Ahb3 |-> 2]

ApbBus == [Apb1 |-> 0, Apb2 |-> 1]

\* peripheral_enum!: the discriminant packed from one table row
peripheral_enum(bus, idx, rst, clk, lp) ==
    Or(Or(FromNat(bus), Shl(FromNat(idx), 8)),
       Or(Shl(FromNat(rst), 16),
          Or(Shl(FromNat(clk), 17), Shl(FromNat(lp), 18))))

AhbPeripheral ==
    [GpioA |-> peripheral_enum(AhbBus.Ahb1, 0, 1, 1, 1),
     GpioB |-> peripheral_enum(AhbBus.Ahb1, 1, 1, 1, 1),
     GpioC |-> peripheral_enum(AhbBus.Ahb1, 2, 1, 1, 1),
     GpioD |-> peripheral_enum(AhbBus.Ahb1, 3, 1, 1, 1),
     GpioE |-> peripheral_enum(AhbBus.Ahb1, 4, 1, 1, 1),
     GpioF |-> peripheral_enum(AhbBus.Ahb1, 5, 1, 1, 1),
     GpioG |-> peripheral_enum(AhbBus.Ahb1, 6, 1, 1, 1),
     GpioH |-> peripheral_enum(AhbBus.Ahb1, 7, 1, 1, 1),
     GpioI |-> peripheral_enum(AhbBus.Ahb1, 8, 1, 1, 1),
     GpioJ |-> peripheral_enum(AhbBus.Ahb1, 9, 1, 1, 1),
     GpioK |-> peripheral_enum(AhbBus.Ahb1, 10, 1, 1, 1),
     Crc |-> peripheral_enum(AhbBus.Ahb1, 12, 1, 1, 1),
     FlashIface |-> peripheral_enum(AhbBus.Ahb1, 15, 0, 0, 1),
     Sram1 |-> peripheral_enum(AhbBus.Ahb1, 16, 0, 0, 1),
     Sram2 |-> peripheral_enum(AhbBus.Ahb1, 17, 0, 0, 1),
     BackupSram |-> peripheral_enum(AhbBus.Ahb1, 18, 0, 1, 1),
     Sram3 |-> peripheral_enum(AhbBus.Ahb1, 19, 0, 0, 1),
     CcmDataRam |-> peripheral_enum(AhbBus.Ahb1, 20, 0, 1, 0),
     Dma1 |-> peripheral_enum(AhbBus.Ahb1, 21, 1, 1, 1),
     Dma2 |-> peripheral_enum(AhbBus.Ahb1, 22, 1, 1, 1),
     Dma2d |-> peripheral_enum(AhbBus.Ahb1, 23, 1, 1, 1),
     Ethernet |-> peripheral_enum(AhbBus.Ahb1, 25, 1, 1, 1),
     EthernetTx |-> peripheral_enum(AhbBus.Ahb1, 26, 0, 1, 1),
     EthernetRx |-> peripheral_enum(AhbBus.Ahb1, 27, 0, 1, 1),
     EthernetPtp |-> peripheral_enum(AhbBus.Ahb1, 28, 0, 1, 1),
     UsbOtgHs |-> peripheral_enum(AhbBus.Ahb1, 29, 1, 1, 1),
     UsbOtgHsUlpi |-> peripheral_enum(AhbBus.Ahb1, 30, 0, 1, 1),
     Dcmi |-> peripheral_enum(AhbBus.Ahb2, 0, 1, 1, 1),
     Cryp |-> peripheral_enum(AhbBus.Ahb2, 4, 1, 1, 1),
     Hash |-> peripheral_enum(AhbBus.Ahb2, 5, 1, 1, 1),
     Rng |-> peripheral_enum(AhbBus.Ahb2, 6, 1, 1, 1),
     UsbOtgFs |-> peripheral_enum(AhbBus.Ahb2, 7, 1, 1, 1),
     Fsmc |-> peripheral_enum(AhbBus.Ahb3, 0, 1, 1, 1)]

ApbPeripheral ==
    [Tim2 |-> peripheral_enum(ApbBus.Apb1, 0, 1, 1, 1),
     Tim3 |-> peripheral_enum(ApbBus.Apb1, 1, 1, 1, 1),
     Tim4 |-> peripheral_enum(ApbBus.Apb1, 2, 1, 1, 1),
     Tim5 |-> peripheral_enum(ApbBus.Apb1, 3, 1, 1, 1),
     Tim6 |-> peripheral_enum(ApbBus.Apb1, 4, 1, 1, 1),
     Tim7 |-> peripheral_enum(ApbBus.Apb1, 5, 1, 1, 1),
     Tim12 |-> peripheral_enum(ApbBus.Apb1, 6, 1, 1, 1),
     Tim13 |-> peripheral_enum(ApbBus.Apb1, 7, 1, 1, 1),
     Tim14 |-> peripheral_enum(ApbBus.Apb1, 8, 1, 1, 1),
     Wwdg |-> peripheral_enum(ApbBus.Apb1, 11, 1, 1, 1),
     Spi2 |-> peripheral_enum(ApbBus.Apb1, 14, 1, 1, 1),
     Spi3 |-> peripheral_enum(ApbBus.Apb1, 15, 1, 1, 1),
     Usart2 |-> peripheral_enum(ApbBus.Apb1, 17, 1, 1, 1),
     Usart3 |-> peripheral_enum(ApbBus.Apb1, 18, 1, 1, 1),
     Uart4 |-> peripheral_enum(ApbBus.Apb1, 19, 1, 1, 1),
     Uart5 |-> peripheral_enum(ApbBus.Apb1, 20, 1, 1, 1),
     I2c1 |-> peripheral_enum(ApbBus.Apb1, 21, 1, 1, 1),
     I2c2 |-> peripheral_enum(ApbBus.Apb1, 22, 1, 1, 1),
     I2c3 |-> peripheral_enum(ApbBus.Apb1, 23, 1, 1, 1),
     Can1 |-> peripheral_enum(ApbBus.Apb1, 25, 1, 1, 1),
     Can2 |-> peripheral_enum(ApbBus.Apb1, 26, 1, 1, 1),
     Pwr |-> peripheral_enum(ApbBus.Apb1, 28, 1, 1, 1),
     Dac |-> peripheral_enum(ApbBus.Apb1, 29, 1, 1, 1),
     Uart7 |-> peripheral_enum(ApbBus.Apb1, 30, 1, 1, 1),
     Uart8 |-> peripheral_enum(ApbBus.Apb1, 31, 1, 1, 1),
     Tim1 |-> peripheral_enum(ApbBus.Apb2, 0, 1, 1, 1),
     Tim8 |-> peripheral_enum(ApbBus.Apb2, 1, 1, 1, 1),
     Usart1 |-> peripheral_enum(ApbBus.Apb2, 4, 1, 1, 1),
     Usart6 |-> peripheral_enum(ApbBus.Apb2, 5, 1, 1, 1),
     Adc1 |-> peripheral_enum(ApbBus.Apb2, 8, 1, 1, 1),
     Adc2 |-> peripheral_enum(ApbBus.Apb2, 9, 0, 1, 1),
     Adc3 |-> peripheral_enum(ApbBus.Apb2, 10, 0, 1, 1),
     Sdio |-> peripheral_enum(ApbBus.Apb2, 11, 1, 1, 1),
     Spi1 |-> peripheral_enum(ApbBus.Apb2, 12, 1, 1, 1),
     Spi4 |-> peripheral_enum(ApbBus.Apb2, 13, 1, 1, 1),
     Syscfg |-> peripheral_enum(ApbBus.Apb2, 14, 1, 1, 1),
     Tim9 |-> peripheral_enum(ApbBus.Apb2, 16, 1, 1, 1),
     Tim10 |-> peripheral_enum(ApbBus.Apb2, 17, 1, 1, 1),
     Tim11 |-> peripheral_enum(ApbBus.Apb2, 18, 1, 1, 1),
     Spi5 |-> peripheral_enum(ApbBus.Apb2, 20, 1, 1, 1),
     Spi6 |-> peripheral_enum(ApbBus.Apb2, 21, 1, 1, 1),
     Sai1 |-> peripheral_enum(ApbBus.Apb2, 22, 1, 1, 1),
     Ltdc |-> peripheral_enum(ApbBus.Apb2, 26, 1, 1, 1)]

\* peripheral_enum!: get_bus, as the index it is used as
get_bus(p) == ToNat(And(p, FromNat(15)))

\* get_bit_index keeping four bits of the index
get_bit_index_nibble(p) == ToNat(And(Shr(p, 8), FromNat(15)))

\* peripheral_enum!: get_bit_index
get_bit_index(p) == ToNat(And(Shr(p, 8), FromNat(31)))

\* has_enr testing the reset flag's bit
has_enr_bit16(p) == And(p, Shl(FromNat(1), 16)) # FromNat(0)

\* peripheral_enum!: has_rst
has_rst(p) == And(p, Shl(FromNat(1), 16)) # FromNat(0)

\* peripheral_enum!: has_enr
has_enr(p) == And(p, Shl(FromNat(1), 17)) # FromNat(0)

\* peripheral_enum!: has_lpenr
has_lpenr(p) == And(p, Shl(FromNat(1), 18)) # FromNat(0)


----------------------------------------------------------------------------
(* Rcc::enable_clock in foreground code and in an interrupt handler         *)

\* Interrupts taken in one behaviour
MaxIrqs == 2

Threads == {"fg", "irq"}

\* Peripherals the foreground call is explored with: every one without a
\* clock-enable bit, and controllable ones on each of the five buses
FgPeripherals ==
    {<<"ahb", AhbPeripheral[n]>> :
        n \in {"FlashIface", "Sram1", "Sram2", "Sram3",
               "GpioA", "GpioD", "UsbOtgHsUlpi", "Dcmi", "Fsmc"}}
    \cup {<<"apb", ApbPeripheral[n]>> : n \in {"Tim2", "Uart8", "Usart1"}}

\* Peripherals the interrupt handler's call is explored with
IrqPeripherals ==
    {<<"ahb", AhbPeripheral[n]>> : n \in {"GpioA", "Dma1", "Sram2"}}
    \cup {<<"apb", ApbPeripheral[n]>> : n \in {"Usart2"}}

\* rcc.reg().ahb_enr[bus] / rcc.reg().apb_enr[bus]
Enr(kind, bus) == IF kind = "ahb" THEN ahb_enr[bus + 1] ELSE apb_enr[bus + 1]

\* Thread t is the one executing: the handler once entered, until it
\* returns; the foreground otherwise (a panic halts the processor)
Running(t) ==
    IF t = "irq"
    THEN thr.irq.pc \notin {"idle", "returned", "panicked"}
    ELSE thr.irq.pc \in {"idle", "returned"}

\* A call RCC.enable_clock(p) about to start
Entered(q) ==
    [pc |-> "check", kind |-> q[1], p |-> q[2],
     r0 |-> FromNat(0), set |-> FromNat(0)]

Event(t, e, v) ==
    Append(elog, [t |-> t, e |-> e, kind |-> thr[t].kind, p |-> thr[t].p,
                  v |-> v])

\* Foreground code calls RCC.enable_clock(p)
FgCall ==
    /\ thr.fg.pc = "idle"
    /\ thr.irq.pc \in {"idle", "returned"}
    /\ \E q \in FgPeripherals : thr' = [thr EXCEPT !.fg = Entered(q)]
    /\ UNCHANGED <<ahb_enr, apb_enr, enr0, monitor, irqs, elog, nonEnableVars>>

\* An interrupt preempts the foreground between two instructions; its
\* handler calls RCC.enable_clock(p).  Exception entry clears the
\* exclusive monitor.
IrqEnter ==
    /\ irqs < MaxIrqs
    /\ thr.irq.pc \in {"idle", "returned"}
    /\ thr.fg.pc # "panicked"
    /\ \E q \in IrqPeripherals : thr' = [thr EXCEPT !.irq = Entered(q)]
    /\ irqs' = irqs + 1
    /\ monitor' = FALSE
    /\ UNCHANGED <<ahb_enr, apb_enr, enr0, elog, nonEnableVars>>

\* if !self.has_enr() { panic!(..) }, then the operand 1 << get_bit_index()
Check(t) ==
    /\ Running(t) /\ thr[t].pc = "check"
    /\ thr' = IF ~has_enr(thr[t].p)
              THEN [thr EXCEPT ![t].pc = "panicked"]
              ELSE [thr EXCEPT ![t].pc = "ldrex",
                               ![t].set = Shl(FromNat(1),
                                              get_bit_index(thr[t].p))]
    /\ UNCHANGED <<ahb_enr, apb_enr, enr0, monitor, irqs, elog, nonEnableVars>>

\* atomic_rmw!: ldrex $0, [$1]
Ldrex(t) ==
    /\ Running(t) /\ thr[t].pc = "ldrex"
    /\ thr' = [thr EXCEPT ![t].pc = "op",
                          ![t].r0 = Enr(thr[t].kind, get_bus(thr[t].p))]
    /\ monitor' = TRUE
    /\ elog' = Event(t, "ldrex", Enr(thr[t].kind, get_bus(thr[t].p)))
    /\ UNCHANGED <<ahb_enr, apb_enr, enr0, irqs, nonEnableVars>>

\* The operand moved into $0 in place of the or
MovsInPlaceOfOrrs(t) ==
    /\ Running(t) /\ thr[t].pc = "op"
    /\ thr' = [thr EXCEPT ![t].pc = "strex", ![t].r0 = thr[t].set]
    /\ UNCHANGED <<ahb_enr, apb_enr, enr0, monitor, irqs, elog, nonEnableVars>>

\* atomic_or: orrs $0, $2
Orrs(t) ==
    /\ Running(t) /\ thr[t].pc = "op"
    /\ thr' = [thr EXCEPT ![t].pc = "strex",
                          ![t].r0 = Or(thr[t].r0, thr[t].set)]
    /\ UNCHANGED <<ahb_enr, apb_enr, enr0, monitor, irqs, elog, nonEnableVars>>

\* The ENR registers after a store of v by thread t
EnrStored(t, v) ==
    LET i == get_bus(thr[t].p) + 1
    IN  IF thr[t].kind = "ahb"
        THEN <<[ahb_enr EXCEPT ![i] = v], apb_enr>>
        ELSE <<ahb_enr, [apb_enr EXCEPT ![i] = v]>>

\* A plain store in place of the exclusive one
StrexIgnoringMonitor(t) ==
    /\ Running(t) /\ thr[t].pc = "strex"
    /\ ahb_enr' = EnrStored(t, thr[t].r0)[1]
    /\ apb_enr' = EnrStored(t, thr[t].r0)[2]
    /\ elog' = Event(t, "store", thr[t].r0)
    /\ thr' = [thr EXCEPT ![t].pc = "test", ![t].r0 = FromNat(0)]
    /\ monitor' = FALSE
    /\ UNCHANGED <<enr0, irqs, nonEnableVars>>

\* atomic_rmw!: strex $0, $0, [$1]: the store happens only if the monitor
\* still holds the tag of this thread's ldrex; $0 receives the status
Strex(t) ==
    /\ Running(t) /\ thr[t].pc = "strex"
    /\ IF monitor
       THEN /\ ahb_enr' = EnrStored(t, thr[t].r0)[1]
            /\ apb_enr' = EnrStored(t, thr[t].r0)[2]
            /\ elog' = Event(t, "store", thr[t].r0)
            /\ thr' = [thr EXCEPT ![t].pc = "test", ![t].r0 = FromNat(0)]
       ELSE /\ UNCHANGED <<ahb_enr, apb_enr>>
            /\ elog' = Event(t, "fail", thr[t].r0)
            /\ thr' = [thr EXCEPT ![t].pc = "test", ![t].r0 = FromNat(1)]
    /\ monitor' = FALSE
    /\ UNCHANGED <<enr0, irqs, nonEnableVars>>

\* The loop left on success without the barrier that follows it
TestThenReturn(t) ==
    /\ Running(t) /\ thr[t].pc = "test"
    /\ thr' = [thr EXCEPT ![t].pc = IF thr[t].r0 = FromNat(0)
                                    THEN "returned" ELSE "ldrex"]
    /\ UNCHANGED <<ahb_enr, apb_enr, enr0, monitor, irqs, elog, nonEnableVars>>

\* atomic_rmw!: if tmp == 0 { break }, else around the loop again
Test(t) ==
    /\ Running(t) /\ thr[t].pc = "test"
    /\ thr' = [thr EXCEPT ![t].pc = IF thr[t].r0 = FromNat(0)
                                    THEN "dsb" ELSE "ldrex"]
    /\ UNCHANGED <<ahb_enr, apb_enr, enr0, monitor, irqs, elog, nonEnableVars>>

\* arm_m::data_synchronization_barrier(), then Rcc::enable_clock returns
Dsb(t) ==
    /\ Running(t) /\ thr[t].pc = "dsb"
    /\ thr' = [thr EXCEPT ![t].pc = "returned"]
    /\ elog' = Event(t, "dsb", Enr(thr[t].kind, get_bus(thr[t].p)))
    /\ UNCHANGED <<ahb_enr, apb_enr, enr0, monitor, irqs, nonEnableVars>>

----------------------------------------------------------------------------
(* Initial states                                                           *)

\* Registers after reset: HSI on and ready, HSITRIM 16; PLLCFGR 0x24003010
ResetRegs ==
    [cr |-> FromNat(131), cfgr |-> FromNat(0),
     pllcfgr |-> FromNat(603992080), acr |-> FromNat(0)]

\* Running from the PLL fed by HSI, HSE off: CR 0x03005A83,
\* CFGR 0x0080C00A (PPRE2 /8, I2SSRC), PLLCFGR 0x04013010, ACR 0x703
PllFromHsiRegs ==
    [cr |-> FromNat(50354819), cfgr |-> FromNat(8437770),
     pllcfgr |-> FromNat(67186704), acr |-> FromNat(1795)]

\* Running from HSE with HSI off: CR 0x000B0080 (CSSON), CFGR 0x28601095
\* (MCO1, MCO2PRE, HPRE /4, PPRE1 /2), ACR 0x701
HseRegs ==
    [cr |-> FromNat(721024), cfgr |-> FromNat(677384341),
     pllcfgr |-> FromNat(603992080), acr |-> FromNat(1793)]

\* The PLL switched on from the reset state and not yet locked: CR 0x01000083
PllLockingRegs ==
    [cr |-> FromNat(16777347), cfgr |-> FromNat(0),
     pllcfgr |-> FromNat(603992080), acr |-> FromNat(0)]

InitRegs == {ResetRegs, PllFromHsiRegs, HseRegs, PllLockingRegs}

\* configure_clocks not yet called, on registers r, with a crystal that
\* works (ok) or not; HSERDY can only be set if it works
InitClock(r, ok) ==
    /\ hse_ok = ok
    /\ ~ok => ~get_hserdy(r.cr)
    /\ cr = r.cr /\ cfgr = r.cfgr /\ pllcfgr = r.pllcfgr /\ acr = r.acr
    /\ pc = "idle"
    /\ cfg = Clocks
    /\ tmp = FromNat(0)
    /\ wlog = <<>>
    /\ obs = [l \in Polls |-> <<>>]
    /\ calls = 0
    /\ entry = r
    /\ isr = {}

\* The enable_clock and bits.rs parts at rest
\* Initial contents of the ENR registers: all clear, the reset content of
\* AHB1ENR (CCM data RAM on), and a mix reaching bit 31
InitEnr == {FromNat(0), {20}, {1, 17, 31}}

\* No enable_clock call made yet, on ENR registers all holding e
InitEnableOn(e) ==
    /\ ahb_enr = <<e, e, e>> /\ apb_enr = <<e, e>>
    /\ enr0 = [ahb |-> <<e, e, e>>, apb |-> <<e, e>>]
    /\ monitor = FALSE
    /\ thr = [t \in Threads |->
                 [pc |-> "idle", kind |-> "ahb", p |-> FromNat(0),
                  r0 |-> FromNat(0), set |-> FromNat(0)]]
    /\ irqs = 0
    /\ elog = <<>>

IdleEnable == InitEnableOn({20})

IdleBits == bf = [op |-> "none"]

IdleNvic == nv = [op |-> "none"]

IdleAtomic == rmw = [op |-> "none"]

IdleBoot == boot = [op |-> "none"]

IdleRest == IdleNvic /\ IdleAtomic /\ IdleBoot

IdleGpio == gp = [op |-> "none"] /\ IdleRest

IdleFields == fd = [op |-> "none"] /\ spd = [op |-> "none"] /\ IdleGpio

Init ==
    /\ \E r \in InitRegs, ok \in BOOLEAN : InitClock(r, ok)
    /\ IdleEnable
    /\ IdleBits
    /\ IdleFields

Next ==
    \/ Call
    \/ ConfigureUpToHse
    \/ ConfigureAfterHse
    \/ HardwareExceptHse
    \/ HwHseReady

Spec == Init /\ [][Next]_vars

InitEnable ==
    /\ InitClock(ResetRegs, TRUE)
    /\ \E e \in InitEnr : InitEnableOn(e)
    /\ IdleBits
    /\ IdleFields

NextEnable ==
    \/ FgCall
    \/ IrqEnter
    \/ \E t \in Threads :
          Check(t) \/ Ldrex(t) \/ Orrs(t) \/ Strex(t) \/ Test(t) \/ Dsb(t)

\* enable_clock in the foreground, preempted by interrupt handlers
SpecEnable == InitEnable /\ [][NextEnable]_vars

\* Raw words and field values the bit-field functions are applied to
BitsOrigs ==
    {FromNat(0), AllOnes, {b \in BitPositions : b % 2 = 0},
     {b \in BitPositions : b % 3 = 0}}

BitsNews ==
    {FromNat(0), FromNat(2), FromNat(6), AllOnes, {31},
     {b \in BitPositions : b % 2 = 1}}

\* A caller holds a raw word, a bit range and a new field value
InitBits ==
    /\ InitClock(ResetRegs, TRUE)
    /\ IdleEnable
    /\ IdleFields
    /\ \E orig \in BitsOrigs, new \in BitsNews, hi \in BitPositions :
          \E lo \in 0 .. hi :
              bf = [op |-> "args", orig |-> orig, hi |-> hi, lo |-> lo,
                    new |-> new, result |-> FromNat(0), field |-> FromNat(0),
                    origField |-> FromNat(0), restored |-> FromNat(0)]

\* A with_* accessor: bitfield_replace on the held word
Replace ==
    /\ bf.op = "args"
    /\ bf' = [bf EXCEPT !.op = "replaced",
                        !.result = bitfield_replace(bf.orig, bf.hi, bf.lo, bf.new)]
    /\ UNCHANGED nonBitsVars

\* A get_* accessor on the replaced word: bitfield_extract
Extract ==
    /\ bf.op = "replaced"
    /\ bf' = [bf EXCEPT !.op = "extracted",
                        !.field = bitfield_extract(bf.result, bf.hi, bf.lo)]
    /\ UNCHANGED nonBitsVars

\* A get_* accessor on the original word
ExtractOrig ==
    /\ bf.op = "extracted"
    /\ bf' = [bf EXCEPT !.op = "read",
                        !.origField = bitfield_extract(bf.orig, bf.hi, bf.lo)]
    /\ UNCHANGED nonBitsVars

\* The with_* accessor given what the get_* accessor returned
ReplaceSame ==
    /\ bf.op = "read"
    /\ bf' = [bf EXCEPT !.op = "restored",
                        !.restored = bitfield_replace(bf.orig, bf.hi, bf.lo,
                                                      bf.origField)]
    /\ UNCHANGED nonBitsVars

NextBits == Replace \/ Extract \/ ExtractOrig \/ ReplaceSame

\* The bit-field functions of bits.rs on their own
SpecBits == InitBits /\ [][NextBits]_vars

----------------------------------------------------------------------------
(* The generated accessors and conversions of every register table          *)

\* bit_enums! of stm32f4/rcc/raw.rs
RccEnums ==
    [Mco2 |-> [Sysclk |-> 0, Plli2s |-> 1, Hse |-> 2, Pll |-> 3],
     McoPre |-> McoPre,
     I2sSrc |-> [Plli2s |-> 0, I2sCkin |-> 1],
     Mco1 |-> [Hsi |-> 0, Lse |-> 1, Hse |-> 2, Pll |-> 3],
     ApbPrescaler |-> ApbPrescaler,
     AhbPrescaler |-> AhbPrescaler,
     ClockSwitch |-> ClockSwitch,
     PllSource |-> PllSource,
     Pllp |-> Pllp]

\* bit_enums! of stm32f4/usart.rs
UsartEnums ==
    [WordLength |-> [EightBits |-> 0, NineBits |-> 1],
     WakeupMethod |-> [IdleLine |-> 0, AddressMark |-> 1],
     Parity |-> [Even |-> 0, Odd |-> 1],
     StopBits |-> [One |-> 0, Half |-> 1, Two |-> 2, OneAndAHalf |-> 3],
     ClockPolarity |-> [IdleLow |-> 0, IdleHigh |-> 1],
     ClockPhase |-> [CaptureOnFirstEdge |-> 0, CaptureOnSecondEdge |-> 1],
     BreakLength |-> [TenBits |-> 0, ElevenBits |-> 1],
     SampleMethod |-> [ThreeBit |-> 0, OneBit |-> 1]]

\* bit_enums! of stm32f4/dma.rs
DmaEnums ==
    [Channel |-> [Ch0 |-> 0, Ch1 |-> 1, Ch2 |-> 2, Ch3 |-> 3, Ch4 |-> 4, Ch5 |-> 5, Ch6 |-> 6, Ch7 |-> 7],
     Burst |-> [Single |-> 0, Incr4 |-> 1, Incr8 |-> 2, Incr16 |-> 3],
     Target |-> [Memory0 |-> 0, Memory1 |-> 1],
     Priority |-> [Low |-> 0, Medium |-> 1, High |-> 2, VeryHigh |-> 3],
     Increment |-> [TransferSize |-> 0, Word |-> 1],
     TransferSize |-> [Byte |-> 0, HalfWord |-> 1, Word |-> 2],
     Direction |-> [PeripheralToMemory |-> 0, MemoryToPeripheral |-> 1, MemoryToMemory |-> 2],
     FifoLevel |-> [Under25 |-> 0, Under50 |-> 1, Under75 |-> 2, Under100 |-> 3, Empty |-> 4, Full |-> 5],
     FifoThreshold |-> [At25 |-> 0, At50 |-> 1, At75 |-> 2, At100 |-> 3]]

\* bit_enums! of arm_m/scb.rs
ScbEnums ==
    [CpAccess |-> [None |-> 0, Privileged |-> 1, Full |-> 3]]

\* bitfield_accessors! of rcc/raw.rs: <<register, getter, hi, lo, type, total>>
RccFields ==
    {<<"rcc::Cr", "get_plli2srdy", 27, 27, "bool", TRUE>>,
     <<"rcc::Cr", "get_plli2son", 26, 26, "bool", TRUE>>,
     <<"rcc::Cr", "get_pllrdy", 25, 25, "bool", TRUE>>,
     <<"rcc::Cr", "get_pllon", 24, 24, "bool", TRUE>>,
     <<"rcc::Cr", "get_csson", 19, 19, "bool", TRUE>>,
     <<"rcc::Cr", "get_hsebyp", 18, 18, "bool", TRUE>>,
     <<"rcc::Cr", "get_hserdy", 17, 17, "bool", TRUE>>,
     <<"rcc::Cr", "get_hseon", 16, 16, "bool", TRUE>>,
     <<"rcc::Cr", "get_hsical", 15, 8, "u8", TRUE>>,
     <<"rcc::Cr", "get_hsitrim", 7, 3, "u32", TRUE>>,
     <<"rcc::Cr", "get_hsirdy", 1, 1, "bool", TRUE>>,
     <<"rcc::Cr", "get_hsion", 0, 0, "bool", TRUE>>,
     <<"rcc::Cfgr", "get_mco2", 31, 30, "Mco2", TRUE>>,
     <<"rcc::Cfgr", "get_mco2pre_en", 29, 29, "bool", TRUE>>,
     <<"rcc::Cfgr", "get_mco2pre_div", 28, 27, "McoPre", TRUE>>,
     <<"rcc::Cfgr", "get_mco1pre_en", 26, 26, "bool", TRUE>>,
     <<"rcc::Cfgr", "get_mco1pre_div", 25, 24, "McoPre", TRUE>>,
     <<"rcc::Cfgr", "get_i2ssrc", 23, 23, "I2sSrc", TRUE>>,
     <<"rcc::Cfgr", "get_mco1", 22, 21, "Mco1", TRUE>>,
     <<"rcc::Cfgr", "get_ppre2_en", 15, 15, "bool", TRUE>>,
     <<"rcc::Cfgr", "get_ppre2_div", 14, 13, "ApbPrescaler", TRUE>>,
     <<"rcc::Cfgr", "get_ppre1_en", 12, 12, "bool", TRUE>>,
     <<"rcc::Cfgr", "get_ppre1_div", 11, 10, "ApbPrescaler", TRUE>>,
     <<"rcc::Cfgr", "get_hpre_en", 7, 7, "bool", TRUE>>,
     <<"rcc::Cfgr", "get_hpre_div", 6, 4, "AhbPrescaler", TRUE>>,
     <<"rcc::Cfgr", "get_sws", 3, 2, "ClockSwitch", FALSE>>,
     <<"rcc::Cfgr", "get_sw", 1, 0, "ClockSwitch", FALSE>>,
     <<"rcc::Pllcfgr", "get_pllq", 27, 24, "u32", TRUE>>,
     <<"rcc::Pllcfgr", "get_pllsrc", 22, 22, "PllSource", TRUE>>,
     <<"rcc::Pllcfgr", "get_pllp", 17, 16, "Pllp", TRUE>>,
     <<"rcc::Pllcfgr", "get_plln", 14, 6, "u32", TRUE>>,
     <<"rcc::Pllcfgr", "get_pllm", 5, 0, "u32", TRUE>>}

\* bitfield_accessors! of flash.rs: <<register, getter, hi, lo, type, total>>
FlashFields ==
    {<<"flash::Acr", "get_dcrst", 12, 12, "bool", TRUE>>,
     <<"flash::Acr", "get_icrst", 11, 11, "bool", TRUE>>,
     <<"flash::Acr", "get_dcen", 10, 10, "bool", TRUE>>,
     <<"flash::Acr", "get_icen", 9, 9, "bool", TRUE>>,
     <<"flash::Acr", "get_prften", 8, 8, "bool", TRUE>>,
     <<"flash::Acr", "get_latency", 2, 0, "u32", TRUE>>}

\* bitfield_accessors! of usart.rs: <<register, getter, hi, lo, type, total>>
UsartFields ==
    {<<"usart::Sr", "get_cts", 9, 9, "bool", TRUE>>,
     <<"usart::Sr", "get_lbd", 8, 8, "bool", TRUE>>,
     <<"usart::Sr", "get_txe", 7, 7, "bool", TRUE>>,
     <<"usart::Sr", "get_tc", 6, 6, "bool", TRUE>>,
     <<"usart::Sr", "get_rxne", 5, 5, "bool", TRUE>>,
     <<"usart::Sr", "get_idle", 4, 4, "bool", TRUE>>,
     <<"usart::Sr", "get_ore", 3, 3, "bool", TRUE>>,
     <<"usart::Sr", "get_nf", 2, 2, "bool", TRUE>>,
     <<"usart::Sr", "get_fe", 1, 1, "bool", TRUE>>,
     <<"usart::Sr", "get_pe", 0, 0, "bool", TRUE>>,
     <<"usart::Dr", "get_data", 7, 0, "u8", TRUE>>,
     <<"usart::Brr", "get_mantissa", 15, 4, "u32", TRUE>>,
     <<"usart::Brr", "get_fraction", 3, 0, "u32", TRUE>>,
     <<"usart::Cr1", "get_over8", 15, 15, "bool", TRUE>>,
     <<"usart::Cr1", "get_ue", 13, 13, "bool", TRUE>>,
     <<"usart::Cr1", "get_m", 12, 12, "WordLength", TRUE>>,
     <<"usart::Cr1", "get_wake", 11, 11, "WakeupMethod", TRUE>>,
     <<"usart::Cr1", "get_pce", 10, 10, "bool", TRUE>>,
     <<"usart::Cr1", "get_ps", 9, 9, "Parity", TRUE>>,
     <<"usart::Cr1", "get_peie", 8, 8, "bool", TRUE>>,
     <<"usart::Cr1", "get_txeie", 7, 7, "bool", TRUE>>,
     <<"usart::Cr1", "get_tcie", 6, 6, "bool", TRUE>>,
     <<"usart::Cr1", "get_rxneie", 5, 5, "bool", TRUE>>,
     <<"usart::Cr1", "get_idleie", 4, 4, "bool", TRUE>>,
     <<"usart::Cr1", "get_te", 3, 3, "bool", TRUE>>,
     <<"usart::Cr1", "get_re", 2, 2, "bool", TRUE>>,
     <<"usart::Cr1", "get_rwu", 1, 1, "bool", TRUE>>,
     <<"usart::Cr1", "get_sbk", 0, 0, "bool", TRUE>>,
     <<"usart::Cr2", "get_linen", 14, 14, "bool", TRUE>>,
     <<"usart::Cr2", "get_stop", 13, 12, "StopBits", TRUE>>,
     <<"usart::Cr2", "get_clken", 11, 11, "bool", TRUE>>,
     <<"usart::Cr2", "get_cpol", 10, 10, "ClockPolarity", TRUE>>,
     <<"usart::Cr2", "get_cpha", 9, 9, "ClockPhase", TRUE>>,
     <<"usart::Cr2", "get_lbcl", 8, 8, "bool", TRUE>>,
     <<"usart::Cr2", "get_lbdie", 6, 6, "bool", TRUE>>,
     <<"usart::Cr2", "get_lbdl", 5, 5, "BreakLength", TRUE>>,
     <<"usart::Cr2", "get_add", 3, 0, "u32", TRUE>>,
     <<"usart::Cr3", "get_onebit", 11, 11, "SampleMethod", TRUE>>,
     <<"usart::Cr3", "get_ctsie", 10, 10, "bool", TRUE>>,
     <<"usart::Cr3", "get_ctse", 9, 9, "bool", TRUE>>,
     <<"usart::Cr3", "get_rtse", 8, 8, "bool", TRUE>>,
     <<"usart::Cr3", "get_dmat", 7, 7, "bool", TRUE>>,
     <<"usart::Cr3", "get_dmar", 6, 6, "bool", TRUE>>,
     <<"usart::Cr3", "get_scen", 5, 5, "bool", TRUE>>,
     <<"usart::Cr3", "get_nack", 4, 4, "bool", TRUE>>,
     <<"usart::Cr3", "get_hdsel", 3, 3, "bool", TRUE>>,
     <<"usart::Cr3", "get_irlp", 2, 2, "bool", TRUE>>,
     <<"usart::Cr3", "get_iren", 1, 1, "bool", TRUE>>,
     <<"usart::Cr3", "get_eie", 0, 0, "bool", TRUE>>,
     <<"usart::Gtpr", "get_gt", 15, 8, "u8", TRUE>>,
     <<"usart::Gtpr", "get_psc", 7, 0, "u8", TRUE>>}

\* bitfield_accessors! of dma.rs: <<register, getter, hi, lo, type, total>>
DmaFields ==
    {<<"dma::Cr", "get_chsel", 27, 25, "Channel", TRUE>>,
     <<"dma::Cr", "get_mburst", 24, 23, "Burst", TRUE>>,
     <<"dma::Cr", "get_pburst", 22, 21, "Burst", TRUE>>,
     <<"dma::Cr", "get_ct", 19, 19, "Target", TRUE>>,
     <<"dma::Cr", "get_dbm", 18, 18, "bool", TRUE>>,
     <<"dma::Cr", "get_pl", 17, 16, "Priority", TRUE>>,
     <<"dma::Cr", "get_pincos", 15, 15, "Increment", TRUE>>,
     <<"dma::Cr", "get_msize", 14, 13, "TransferSize", FALSE>>,
     <<"dma::Cr", "get_psize", 12, 11, "TransferSize", FALSE>>,
     <<"dma::Cr", "get_minc", 10, 10, "bool", TRUE>>,
     <<"dma::Cr", "get_pinc", 9, 9, "bool", TRUE>>,
     <<"dma::Cr", "get_circ", 8, 8, "bool", TRUE>>,
     <<"dma::Cr", "get_dir", 7, 6, "Direction", FALSE>>,
     <<"dma::Cr", "get_pfctrl", 5, 5, "bool", TRUE>>,
     <<"dma::Cr", "get_tcie", 4, 4, "bool", TRUE>>,
     <<"dma::Cr", "get_htie", 3, 3, "bool", TRUE>>,
     <<"dma::Cr", "get_teie", 2, 2, "bool", TRUE>>,
     <<"dma::Cr", "get_dmeie", 1, 1, "bool", TRUE>>,
     <<"dma::Cr", "get_en", 0, 0, "bool", TRUE>>,
     <<"dma::Fcr", "get_feie", 7, 7, "bool", TRUE>>,
     <<"dma::Fcr", "get_fs", 5, 3, "FifoLevel", FALSE>>,
     <<"dma::Fcr", "get_dmdis", 2, 2, "bool", TRUE>>,
     <<"dma::Fcr", "get_fth", 1, 0, "FifoThreshold", TRUE>>}

\* bitfield_accessors! of scb.rs: <<register, getter, hi, lo, type, total>>
ScbFields ==
    {<<"scb::Cpacr", "get_cp11", 23, 22, "CpAccess", FALSE>>,
     <<"scb::Cpacr", "get_cp10", 21, 20, "CpAccess", FALSE>>,
     <<"scb::Fpccr", "get_aspen", 31, 31, "bool", FALSE>>,
     <<"scb::Fpccr", "get_lspen", 30, 30, "bool", FALSE>>,
     <<"scb::Fpccr", "get_monrdy", 8, 8, "bool", FALSE>>,
     <<"scb::Fpccr", "get_bfrdy", 6, 6, "bool", FALSE>>,
     <<"scb::Fpccr", "get_mmrdy", 5, 5, "bool", FALSE>>,
     <<"scb::Fpccr", "get_hfrdy", 4, 4, "bool", FALSE>>,
     <<"scb::Fpccr", "get_thread", 3, 3, "bool", FALSE>>,
     <<"scb::Fpccr", "get_user", 1, 1, "bool", FALSE>>,
     <<"scb::Fpccr", "get_lspact", 0, 0, "bool", FALSE>>}

\* Every type declared with bit_enums!
BitEnums == RccEnums @@ UsartEnums @@ DmaEnums @@ ScbEnums

\* Every accessor declared with bitfield_accessors! over bool, u8, u32 and
\* bit_enum types
Accessors == RccFields \cup FlashFields \cup UsartFields \cup DmaFields \cup ScbFields

\* <T as IntoBits>::into_bits; a u32 value is its word
into_bits(ty, v) ==
    CASE ty = "bool" -> bool_into_bits(v)
      [] ty = "u8"   -> u8_into_bits(v)
      [] ty = "u32"  -> v
      [] OTHER       -> enum_into_bits(BitEnums[ty], v)

\* <T as FromBits>::from_bits (bool and bit_enum types)
from_bits(ty, bits) ==
    IF ty = "bool" THEN bool_from_bits(bits)
    ELSE enum_from_bits(BitEnums[ty], bits)

\* <T as FromBitsTotal>::from_bits_total
from_bits_total(ty, bits) ==
    CASE ty = "bool" -> bool_from_bits_total(bits)
      [] ty = "u8"   -> u8_from_bits_total(bits)
      [] ty = "u32"  -> bits
      [] OTHER       -> enum_from_bits_total(BitEnums[ty], bits)

\* bitfield_accessors! @_impl: the getter of accessor a on the word raw
getter(a, raw) ==
    IF a[6]
    THEN from_bits_total(a[5], bitfield_extract(raw, a[3], a[4]))
    ELSE from_bits(a[5], bitfield_extract(raw, a[3], a[4]))

\* bitfield_accessors! @_impl: the with_ function of accessor a
with(a, raw, v) == bitfield_replace(raw, a[3], a[4], into_bits(a[5], v))

\* The value a getter returned, if it returned one
Value(a, got) == IF a[6] THEN got ELSE got[2]

\* x is the outcome of a from_bits_total that reached unreachable!()
Unreachable(x) == ToString(x) = ToString("unreachable")

HasValue(a, got) == IF a[6] THEN ~Unreachable(got) ELSE got[1] = "Ok"

\* The values of a bool or bit_enum type
Values(ty) == IF ty = "bool" THEN BOOLEAN ELSE DOMAIN BitEnums[ty]

\* Register words in which the field of a holds the pattern p; the other
\* bits are all 0 or all 1
WordsWith(a, p) ==
    {Shl(FromNat(p), a[4]) \cup bg : bg \in {{}, BitPositions \ (a[4] .. a[3])}}

\* A caller holds a register word, or a value to store in a field
InitAccessors ==
    /\ InitClock(ResetRegs, TRUE)
    /\ IdleEnable
    /\ IdleBits
    /\ spd = [op |-> "none"]
    /\ IdleGpio
    /\ \/ \E a \in Accessors : \E p \in 0 .. (2 ^ (a[3] - a[4] + 1) - 1) :
             \E raw \in WordsWith(a, p) :
                 fd = [op |-> "reg", acc |-> a, raw |-> raw]
       \/ \E ty \in {"bool"} \cup DOMAIN BitEnums : \E v \in Values(ty) :
             fd = [op |-> "value", ty |-> ty, v |-> v]

\* get_x()
Get ==
    /\ fd.op = "reg"
    /\ fd' = [op |-> "got", acc |-> fd.acc, raw |-> fd.raw,
              got |-> getter(fd.acc, fd.raw)]
    /\ UNCHANGED nonFieldVars

\* with_x(v) on the same word with the value get_x() returned
With ==
    /\ fd.op = "got"
    /\ HasValue(fd.acc, fd.got)
    /\ fd' = [op |-> "put", acc |-> fd.acc, raw |-> fd.raw, got |-> fd.got,
              back |-> with(fd.acc, fd.raw, Value(fd.acc, fd.got))]
    /\ UNCHANGED nonFieldVars

\* v.into_bits()
Encode ==
    /\ fd.op = "value"
    /\ fd' = [op |-> "encoded", ty |-> fd.ty, v |-> fd.v,
              bits |-> into_bits(fd.ty, fd.v)]
    /\ UNCHANGED nonFieldVars

\* T::from_bits and T::from_bits_total on the encoded bits
Decode ==
    /\ fd.op = "encoded"
    /\ fd' = [op |-> "decoded", ty |-> fd.ty, v |-> fd.v, bits |-> fd.bits,
              res |-> from_bits(fd.ty, fd.bits),
              tot |-> from_bits_total(fd.ty, fd.bits)]
    /\ UNCHANGED nonFieldVars

NextAccessors == Get \/ With \/ Encode \/ Decode

\* The generated accessors and conversions on their own
SpecAccessors == InitAccessors /\ [][NextAccessors]_vars

----------------------------------------------------------------------------
(* ClockConfig::compute_speeds                                              *)

\* A Pllp divisor table that takes the field value as a power of two
PllpDivisorPow2 == [Div2 |-> 2, Div4 |-> 4, Div6 |-> 8, Div8 |-> 16]

\* impl ClockDivisor for Pllp
PllpDivisor == [Div2 |-> 2, Div4 |-> 4, Div6 |-> 6, Div8 |-> 8]

\* impl ClockDivisor for ApbPrescaler
ApbDivisor == [Div2 |-> 2, Div4 |-> 4, Div8 |-> 8, Div16 |-> 16]

\* impl ClockDivisor for AhbPrescaler
AhbDivisor ==
    [Div2 |-> 2, Div4 |-> 4, Div8 |-> 8, Div16 |-> 16,
     Div64 |-> 64, Div128 |-> 128, Div256 |-> 256, Div512 |-> 512]

\* impl ClockDivisor for Option<T>: map(to_divisor).unwrap_or(1)
option_to_divisor(D, o) == IF o = <<>> THEN 1 ELSE D[o[1]]

RECURSIVE OddPart(_)
OddPart(n) == IF n > 0 /\ n % 2 = 0 THEN OddPart(n \div 2) ELSE n

\* The integer n is an f32 (24 significant bits)
F32Exact(n) == OddPart(n) < 2 ^ 24

\* f32 division and multiplication where the result is an integer f32; the
\* configurations drawn keep every operation inside this case
f32_div(a, b) == a \div b

f32_mul(a, b) == a * b

compute_speeds(c) ==
    LET vco_in_hz  == f32_div(c.crystal_hz, c.crystal_divisor)
        vco_out_hz == f32_mul(vco_in_hz, c.vco_multiplier)
        cpu        == f32_div(vco_out_hz, PllpDivisor[c.general_divisor])
    IN  [cpu   |-> cpu,
         ahb   |-> f32_div(cpu, option_to_divisor(AhbDivisor, c.ahb_divisor)),
         apb1  |-> f32_div(cpu, option_to_divisor(ApbDivisor, c.apb1_divisor)),
         apb2  |-> f32_div(cpu, option_to_divisor(ApbDivisor, c.apb2_divisor)),
         pll48 |-> f32_div(vco_out_hz, c.pll48_divisor)]

\* Configurations passed to compute_speeds
SpeedConfigs ==
    [crystal_hz : {8000000, 16000000}, crystal_divisor : {4, 8},
     vco_multiplier : {160, 168}, general_divisor : DOMAIN Pllp,
     pll48_divisor : {4, 7},
     ahb_divisor : {<<>>, <<"Div2">>, <<"Div64">>},
     apb1_divisor : {<<>>, <<"Div4">>}, apb2_divisor : {<<>>, <<"Div2">>},
     flash_latency : {5}]

\* Every division of compute_speeds on c is exact and every value an f32
ExactConfig(c) ==
    LET vin  == c.crystal_hz \div c.crystal_divisor
        vout == vin * c.vco_multiplier
        g    == CASE c.general_divisor = "Div2" -> 2
                  [] c.general_divisor = "Div4" -> 4
                  [] c.general_divisor = "Div6" -> 6
                  [] c.general_divisor = "Div8" -> 8
        cpu  == vout \div g
    IN  /\ c.crystal_hz % c.crystal_divisor = 0
        /\ vout % g = 0
        /\ vout % c.pll48_divisor = 0
        /\ cpu % 64 = 0
        /\ \A n \in {c.crystal_hz, vin, vout, cpu} : F32Exact(n)

InitSpeeds ==
    /\ InitClock(ResetRegs, TRUE)
    /\ IdleEnable
    /\ IdleBits
    /\ fd = [op |-> "none"]
    /\ IdleGpio
    /\ \E c \in SpeedConfigs :
          /\ ExactConfig(c)
          /\ spd = [op |-> "config", cfg |-> c]

\* CLOCKS.compute_speeds()
ComputeSpeeds ==
    /\ spd.op = "config"
    /\ spd' = [op |-> "computed", cfg |-> spd.cfg,
               speeds |-> compute_speeds(spd.cfg)]
    /\ UNCHANGED nonSpeedVars

NextSpeeds == ComputeSpeeds

SpecSpeeds == InitSpeeds /\ [][NextSpeeds]_vars

\* ---- stm32f4/gpio.rs: GpioPort::set_alternate_function ----

\* a * b on u32 where a is a small natural and b a word, computed on the
\* two 16-bit halves of b and truncated to 32 bits
u32_mul(a, b) ==
    LET lo == a * ToNat(And(b, FromNat(65535)))
        hi == a * ToNat(Shr(b, 16)) + lo \div 65536
    IN  Or(FromNat(lo % 65536), Shl(FromNat(hi % 65536), 16))

\* reg.atomic_nand_and_or(clear, set): bics then orrs on the loaded value,
\* stored by the strex that succeeds
atomic_nand_and_or(v, clear, set) == Or(And(v, Not(clear)), set)

\* for i in 0..7
DoUpdateRange == 0 .. 6

\* places |= (bits & (1 << i)) << (3 * i)
Places(bits) ==
    UNION {Shl(And(bits, Shl(FromNat(1), i)), 3 * i) : i \in DoUpdateRange}

\* do_update(bits, af, reg): the value of the register when it returns
do_update(bits, af, reg) ==
    LET places == Places(bits)
        mask == u32_mul(15, places)
        setting == u32_mul(af, places)
    IN  IF mask # FromNat(0) THEN atomic_nand_and_or(reg, mask, setting)
        ELSE reg

\* Function as u32
Function == 0 .. 15

\* The pins the drawn PinMask values are built from
GpioPins == {0, 2, 6, 7, 8, 14, 15}

\* PinMask::bits(): bit n is pin Pn
PinMasks == SUBSET GpioPins

\* Contents of AFRL and AFRH before the call: the reset value 0, 0x5A5A5A5A
AfrInits == {FromNat(0), {1, 3, 4, 6, 9, 11, 12, 14,
                          17, 19, 20, 22, 25, 27, 28, 30}}

InitGpio ==
    /\ InitClock(ResetRegs, TRUE)
    /\ IdleEnable
    /\ IdleBits
    /\ fd = [op |-> "none"]
    /\ spd = [op |-> "none"]
    /\ IdleRest
    /\ \E pins \in PinMasks, af \in Function, l \in AfrInits, h \in AfrInits :
          gp = [op |-> "args", pins |-> pins, af |-> af,
                afrl |-> l, afrh |-> h, afrl0 |-> l, afrh0 |-> h]

\* do_update(pins & 0xFF, af, &afrl)
DoUpdateAfrl ==
    /\ gp.op = "args"
    /\ gp' = [gp EXCEPT !.op = "afrl",
                        !.afrl = do_update(And(gp.pins, FromNat(255)),
                                           gp.af, gp.afrl)]
    /\ UNCHANGED nonGpioVars

\* do_update((pins >> 8) & 0xFF, af, &afrh)
DoUpdateAfrh ==
    /\ gp.op = "afrl"
    /\ gp' = [gp EXCEPT !.op = "returned",
                        !.afrh = do_update(And(Shr(gp.pins, 8), FromNat(255)),
                                           gp.af, gp.afrh)]
    /\ UNCHANGED nonGpioVars

NextGpio == DoUpdateAfrl \/ DoUpdateAfrh

\* set_alternate_function called once on drawn pins, function and registers
SpecGpio == InitGpio /\ [][NextGpio]_vars

\* ---- stm32f4/irq.rs, arm_m/nvic.rs: interrupt priorities ----

\* enum Interrupt as u32: Wwdg = 0 .. Dma2d = 90
Interrupt == 0 .. 90

\* enum Priority as u8
Priority ==
    [P0 |-> 0, P1 |-> 1, P2 |-> 2, P3 |-> 3, P4 |-> 4, P5 |-> 5, P6 |-> 6,
     P7 |-> 7, P8 |-> 8, P9 |-> 9, P10 |-> 10, P11 |-> 11, P12 |-> 12,
     P13 |-> 13, P14 |-> 14, P15 |-> 15]

PRIO_SHIFT == 4

\* The arms of the match in get_priority: arm v is PriorityArms[v + 1]
PriorityArms ==
    <<"P0", "P1", "P2", "P3", "P4", "P5", "P6", "P7",
      "P8", "P9", "P10", "P11", "P12", "P13", "P14", "P15">>

\* << and >> on a u8
u8_shl(n, k) == (n * 2 ^ k) % 256

u8_shr(n, k) == n \div 2 ^ k

\* ipr[irq].set(priority)
set_priority_raw(ipr, irq, priority) == [ipr EXCEPT ![irq] = priority]

\* ipr[irq].get()
get_priority_raw(ipr, irq) == ipr[irq]

\* A set_priority that stores the priority in the low four bits
set_priority_unshifted(ipr, irq, p) == set_priority_raw(ipr, irq, Priority[p])

\* NvicExt::set_priority: the priority bytes when it returns
set_priority(ipr, irq, p) ==
    set_priority_raw(ipr, irq, u8_shl(Priority[p], PRIO_SHIFT))

\* NvicExt::get_priority; "unreachable" stands for unreachable!()
get_priority(ipr, irq) ==
    LET v == u8_shr(get_priority_raw(ipr, irq), PRIO_SHIFT)
    IN  IF v + 1 \in DOMAIN PriorityArms THEN PriorityArms[v + 1]
        ELSE "unreachable"

\* Contents of a priority byte before the call
IprInits == {0, 15, 83, 255}

InitNvic ==
    /\ InitClock(ResetRegs, TRUE)
    /\ IdleEnable
    /\ IdleBits
    /\ fd = [op |-> "none"]
    /\ spd = [op |-> "none"]
    /\ gp = [op |-> "none"]
    /\ IdleAtomic
    /\ IdleBoot
    /\ \E b \in IprInits, c \in IprInits :
          LET ipr == [i \in Interrupt |-> IF i % 2 = 0 THEN b ELSE c]
          IN  nv = [op |-> "idle", ipr |-> ipr, ipr0 |-> ipr]

\* NVIC.set_priority(irq, p)
SetPriority ==
    /\ nv.op = "idle"
    /\ \E irq \in Interrupt, p \in DOMAIN Priority :
          nv' = [op |-> "set", ipr |-> set_priority(nv.ipr, irq, p),
                 ipr0 |-> nv.ipr0, irq |-> irq, p |-> p]
    /\ UNCHANGED nonNvicVars

\* NVIC.get_priority(irq) after set_priority(irq, p)
GetPriority ==
    /\ nv.op = "set"
    /\ nv' = [nv EXCEPT !.op = "got"] @@ [got |-> get_priority(nv.ipr, nv.irq)]
    /\ UNCHANGED nonNvicVars

\* NVIC.get_priority(irq) on the priority bytes as they were found
ReadPriority ==
    /\ nv.op = "idle"
    /\ \E irq \in Interrupt :
          nv' = [op |-> "read", ipr |-> nv.ipr, ipr0 |-> nv.ipr0, irq |-> irq,
                 got |-> get_priority(nv.ipr, irq)]
    /\ UNCHANGED nonNvicVars

NextNvic == SetPriority \/ GetPriority \/ ReadPriority

SpecNvic == InitNvic /\ [][NextNvic]_vars

\* HSI on and not yet ready (CR 0x81), with the reserved pattern 0b11 in
\* CFGR.SWS (CFGR 0xC)
ReservedSwsRegs ==
    [cr |-> FromNat(129), cfgr |-> FromNat(12),
     pllcfgr |-> FromNat(603992080), acr |-> FromNat(0)]

InitReservedSws ==
    /\ \E ok \in BOOLEAN : InitClock(ReservedSwsRegs, ok)
    /\ IdleEnable
    /\ IdleBits
    /\ IdleFields

\* configure_clocks called while SWS reads back the reserved pattern
SpecReservedSws == InitReservedSws /\ [][Next]_vars

\* ---- arm_m/reg.rs: AtomicReg for Reg<u32> ----

\* atomic_or: orrs $0, $2
atomic_or(v, set) == Or(v, set)

\* atomic_nand: bics $0, $2
atomic_nand(v, clear) == And(v, Not(clear))

AtomicKinds == {"atomic_or", "atomic_nand", "atomic_nand_and_or"}

\* Register contents and operands the calls are explored with
RmwRegs == {FromNat(0), {0, 3}, {1, 5, 31}}

RmwOperands == {{0}, {3, 31}}

\* What a preempting handler stores to the register holding v
HandlerStores(v) == {Or(v, {4}), And(v, Not({0, 1}))}

RmwEvent(e, v) == Append(rmw.log, [e |-> e, v |-> v])

InitAtomic ==
    /\ InitClock(ResetRegs, TRUE)
    /\ IdleEnable
    /\ IdleBits
    /\ fd = [op |-> "none"]
    /\ spd = [op |-> "none"]
    /\ gp = [op |-> "none"]
    /\ IdleNvic
    /\ IdleBoot
    /\ \E k \in AtomicKinds, v \in RmwRegs, c \in RmwOperands,
          s \in RmwOperands :
          rmw = [op |-> k, pc |-> "ldrex", reg |-> v, clear |-> c, set |-> s,
                 r0 |-> FromNat(0), mon |-> FALSE, irqs |-> 0, log |-> <<>>]

\* atomic_rmw!: ldrex $0, [$1]
RmwLdrex ==
    /\ rmw.op # "none" /\ rmw.pc = "ldrex"
    /\ rmw' = [rmw EXCEPT !.pc = "code", !.r0 = rmw.reg, !.mon = TRUE,
                          !.log = RmwEvent("load", rmw.reg)]
    /\ UNCHANGED nonAtomicVars

\* atomic_rmw!: $code, the instructions each operation passes to the macro
RmwCode ==
    /\ rmw.op # "none" /\ rmw.pc = "code"
    /\ rmw' = [rmw EXCEPT
                  !.pc = "strex",
                  !.r0 = CASE rmw.op = "atomic_or" ->
                                  atomic_or(rmw.r0, rmw.set)
                           [] rmw.op = "atomic_nand" ->
                                  atomic_nand(rmw.r0, rmw.clear)
                           [] OTHER ->
                                  atomic_nand_and_or(rmw.r0, rmw.clear,
                                                     rmw.set)]
    /\ UNCHANGED nonAtomicVars

\* A plain store in place of the exclusive one
RmwStrexIgnoringMonitor ==
    /\ rmw.op # "none" /\ rmw.pc = "strex"
    /\ rmw' = [rmw EXCEPT !.pc = "test", !.reg = rmw.r0, !.r0 = FromNat(0),
                          !.mon = FALSE, !.log = RmwEvent("store", rmw.r0)]
    /\ UNCHANGED nonAtomicVars

\* atomic_rmw!: strex $0, $0, [$1]: the store happens only if the monitor
\* still holds the tag of the ldrex; $0 receives the status
RmwStrex ==
    /\ rmw.op # "none" /\ rmw.pc = "strex"
    /\ rmw' = IF rmw.mon
              THEN [rmw EXCEPT !.pc = "test", !.reg = rmw.r0,
                               !.r0 = FromNat(0), !.mon = FALSE,
                               !.log = RmwEvent("store", rmw.r0)]
              ELSE [rmw EXCEPT !.pc = "test", !.r0 = FromNat(1),
                               !.mon = FALSE,
                               !.log = RmwEvent("fail", rmw.reg)]
    /\ UNCHANGED nonAtomicVars

\* atomic_rmw!: if tmp == 0 { break }, else around the loop again
RmwTest ==
    /\ rmw.op # "none" /\ rmw.pc = "test"
    /\ rmw' = [rmw EXCEPT !.pc = IF rmw.r0 = FromNat(0) THEN "returned"
                                 ELSE "ldrex"]
    /\ UNCHANGED nonAtomicVars

\* An interrupt between two instructions of the call; its handler stores
\* to the same register and returns.  Exception entry clears the
\* exclusive monitor.
RmwIrq ==
    /\ rmw.op # "none" /\ rmw.pc # "returned"
    /\ rmw.irqs < MaxIrqs
    /\ \E v \in HandlerStores(rmw.reg) :
          rmw' = [rmw EXCEPT !.reg = v, !.mon = FALSE, !.irqs = rmw.irqs + 1,
                             !.log = RmwEvent("irq", v)]
    /\ UNCHANGED nonAtomicVars

NextAtomic == RmwLdrex \/ RmwCode \/ RmwStrex \/ RmwTest \/ RmwIrq

\* One call of an atomic operation, preempted by handlers that write the
\* same register
SpecAtomic == InitAtomic /\ [][NextAtomic]_vars

\* ---- stm32f4/gpio.rs: set_mode, set_output_type, set_speed, set_pull ----

\* enum Mode, OutputType, Speed, Pull as u32
Mode == [Input |-> 0, Gpio |-> 1, Alternate |-> 2, Analog |-> 3]

OutputType == [PushPull |-> 0, OpenDrain |-> 1]

Speed == [Low |-> 0, Medium |-> 1, High |-> 2, VeryHigh |-> 3]

Pull == [None |-> 0, Up |-> 1, Down |-> 2]

\* GpioPort::update_1: the value of the register when it returns
update_1(pins, val, reg) ==
    LET mask == pins
    IN  atomic_nand_and_or(reg, mask, u32_mul(val, mask))

\* places |= (pins & (1 << i)) << i, for i in 0..16
Places2(pins) ==
    UNION {Shl(And(pins, Shl(FromNat(1), i)), i) : i \in 0 .. 15}

\* An update_2 whose mask covers only the low bit of each field
update_2_low_bit(pins, val, reg) ==
    LET places == Places2(pins)
    IN  atomic_nand_and_or(reg, u32_mul(1, places), u32_mul(val, places))

\* GpioPort::update_2: the value of the register when it returns
update_2(pins, val, reg) ==
    LET places == Places2(pins)
        mask == u32_mul(3, places)
        setting == u32_mul(val, places)
    IN  atomic_nand_and_or(reg, mask, setting)

\* The setters with the enumeration and the register each one works on
GpioSetters ==
    [set_mode |-> [values |-> Mode, reg |-> "moder", width |-> 2],
     set_output_type |-> [values |-> OutputType, reg |-> "otyper", width |-> 1],
     set_speed |-> [values |-> Speed, reg |-> "ospeedr", width |-> 2],
     set_pull |-> [values |-> Pull, reg |-> "pupdr", width |-> 2]]

\* Contents of MODER, OTYPER, OSPEEDR and PUPDR before the call: 0,
\* 0x5A5A5A5A and 0xFFFFFFFF
GpioRegInits ==
    {FromNat(0), AllOnes,
     {1, 3, 4, 6, 9, 11, 12, 14, 17, 19, 20, 22, 25, 27, 28, 30}}

InitGpioFields ==
    /\ InitClock(ResetRegs, TRUE)
    /\ IdleEnable
    /\ IdleBits
    /\ fd = [op |-> "none"]
    /\ spd = [op |-> "none"]
    /\ IdleRest
    /\ \E m \in DOMAIN GpioSetters, pins \in PinMasks, r \in GpioRegInits :
          \E v \in DOMAIN GpioSetters[m].values :
              LET regs == [moder |-> r, otyper |-> r, ospeedr |-> r,
                           pupdr |-> r]
              IN  gp = [op |-> "call", method |-> m, pins |-> pins,
                        val |-> v, regs |-> regs, regs0 |-> regs]

\* Self::update_2(pins, mode as u32, &moder)
SetMode ==
    /\ gp.op = "call" /\ gp.method = "set_mode"
    /\ gp' = [gp EXCEPT !.op = "set",
                 !.regs.moder = update_2(gp.pins, Mode[gp.val], @)]
    /\ UNCHANGED nonGpioVars

\* Self::update_1(pins, ot as u32, &otyper)
SetOutputType ==
    /\ gp.op = "call" /\ gp.method = "set_output_type"
    /\ gp' = [gp EXCEPT !.op = "set",
                 !.regs.otyper = update_1(gp.pins, OutputType[gp.val], @)]
    /\ UNCHANGED nonGpioVars

\* Self::update_2(pins, speed as u32, &ospeedr)
SetSpeed ==
    /\ gp.op = "call" /\ gp.method = "set_speed"
    /\ gp' = [gp EXCEPT !.op = "set",
                 !.regs.ospeedr = update_2(gp.pins, Speed[gp.val], @)]
    /\ UNCHANGED nonGpioVars

\* Self::update_2(pins, pull as u32, &pupdr)
SetPull ==
    /\ gp.op = "call" /\ gp.method = "set_pull"
    /\ gp' = [gp EXCEPT !.op = "set",
                 !.regs.pupdr = update_2(gp.pins, Pull[gp.val], @)]
    /\ UNCHANGED nonGpioVars

NextGpioFields == SetMode \/ SetOutputType \/ SetSpeed \/ SetPull

\* One of the four setters called once on drawn pins, value and registers
SpecGpioFields == InitGpioFields /\ [][NextGpioFields]_vars

\* ---- stm32f4/rcc/raw.rs: the optional prescalers of Cfgr ----

\* The en_option_accessors! of Cfgr: enable bit, divisor bits, divisor type
OptionalPrescalers ==
    [mco2pre |-> [en |-> 29, hi |-> 28, lo |-> 27, E |-> McoPre],
     mco1pre |-> [en |-> 26, hi |-> 25, lo |-> 24, E |-> McoPre],
     ppre2 |-> [en |-> 15, hi |-> 14, lo |-> 13, E |-> ApbPrescaler],
     ppre1 |-> [en |-> 12, hi |-> 11, lo |-> 10, E |-> ApbPrescaler],
     hpre |-> [en |-> 7, hi |-> 6, lo |-> 4, E |-> AhbPrescaler]]

\* c.get_X()
get_option(x, c) ==
    CASE x = "mco2pre" -> get_mco2pre(c)
      [] x = "mco1pre" -> get_mco1pre(c)
      [] x = "ppre2" -> get_ppre2(c)
      [] x = "ppre1" -> get_ppre1(c)
      [] x = "hpre" -> get_hpre(c)

\* c.with_X(v)
with_option(x, c, v) ==
    CASE x = "mco2pre" -> with_mco2pre(c, v)
      [] x = "mco1pre" -> with_mco1pre(c, v)
      [] x = "ppre2" -> with_ppre2(c, v)
      [] x = "ppre1" -> with_ppre1(c, v)
      [] x = "hpre" -> with_hpre(c, v)

\* Cfgr values: every pattern of the enable and divisor bits of x, within
\* all zeros and within all ones
CfgrsFor(x) ==
    LET o == OptionalPrescalers[x]
    IN  {Shl(FromNat(p), o.lo) \cup bg :
            p \in 0 .. (2 ^ (o.en - o.lo + 1) - 1),
            bg \in {{}, BitPositions \ (o.lo .. o.en)}}

\* Option<$ty>: None and Some of every variant
OptionsOf(x) ==
    {<<>>} \cup {<<d>> : d \in DOMAIN OptionalPrescalers[x].E}

InitOptions ==
    /\ InitClock(ResetRegs, TRUE)
    /\ IdleEnable
    /\ IdleBits
    /\ spd = [op |-> "none"]
    /\ IdleGpio
    /\ \E x \in DOMAIN OptionalPrescalers :
          \E c \in CfgrsFor(x), v \in OptionsOf(x) :
              fd = [op |-> "cfgr", x |-> x, c |-> c, v |-> v]

\* c.with_X(v)
WithOption ==
    /\ fd.op = "cfgr"
    /\ fd' = [op |-> "with", x |-> fd.x, c |-> fd.c, v |-> fd.v,
              result |-> with_option(fd.x, fd.c, fd.v)]
    /\ UNCHANGED nonFieldVars

\* c.with_X(v).get_X()
GetOption ==
    /\ fd.op = "with"
    /\ fd' = [fd EXCEPT !.op = "with_get"]
             @@ [got |-> get_option(fd.x, fd.result)]
    /\ UNCHANGED nonFieldVars

\* c.get_X()
ReadOption ==
    /\ fd.op = "cfgr"
    /\ fd' = [op |-> "get", x |-> fd.x, c |-> fd.c,
              got |-> get_option(fd.x, fd.c)]
    /\ UNCHANGED nonFieldVars

NextOptions == WithOption \/ GetOption \/ ReadOption

SpecOptions == InitOptions /\ [][NextOptions]_vars

\* ---- arm_m/startup.rs: _reset_vector ----

\* Most words in .data and in .bss, and most init hooks, explored
MaxWords == 2

MaxHooks == 2

\* Link addresses: _data_load and _embrs_init_array_start in ROM, _data in
\* RAM with .bss directly behind .data
DataLoad == 64

InitArrayStart == 96

DataStart == 128

\* RAM from _data on, one word more than the two sections can fill
RamAddrs == {DataStart + 4 * i : i \in 0 .. (2 * MaxWords)}

\* ROM: word i of the load image is 11 * (i + 1); entry j of the init
\* array is the address of hook j + 1
Rom(a) ==
    IF a >= InitArrayStart THEN 1 + (a - InitArrayStart) \div 4
    ELSE 11 * (1 + (a - DataLoad) \div 4)

\* What the RAM word at address a holds after power-up
RamGarbage(a) == 170 + a

InitBoot ==
    /\ InitClock(ResetRegs, TRUE)
    /\ IdleEnable
    /\ IdleBits
    /\ fd = [op |-> "none"]
    /\ spd = [op |-> "none"]
    /\ gp = [op |-> "none"]
    /\ IdleNvic
    /\ IdleAtomic
    /\ \E nd \in 0 .. MaxWords, nb \in 0 .. MaxWords, nh \in 0 .. MaxHooks :
          boot = [op |-> "reset", pc |-> "data_init",
                  edata |-> DataStart + 4 * nd,
                  ebss |-> DataStart + 4 * nd + 4 * nb,
                  init_end |-> InitArrayStart + 4 * nh,
                  ram |-> [a \in RamAddrs |-> RamGarbage(a)],
                  r |-> [i \in 0 .. 5 |-> 0],
                  hooks |-> <<>>]

\* Not yet at embrs_main
Booting(l) == boot.op = "reset" /\ boot.pc = l

\* ldr r0, =_data_load; ldr r1, =_data; ldr r2, =_edata; b 1f
DataInit ==
    /\ Booting("data_init")
    /\ boot' = [boot EXCEPT !.pc = "data_cmp",
                   !.r = [@ EXCEPT ![0] = DataLoad, ![1] = DataStart,
                                   ![2] = boot.edata]]
    /\ UNCHANGED nonBootVars

\* 1: cmp r1, r2; bne 0b
DataCmp ==
    /\ Booting("data_cmp")
    /\ boot' = [boot EXCEPT !.pc = IF boot.r[1] # boot.r[2] THEN "data_copy"
                                   ELSE "bss_init"]
    /\ UNCHANGED nonBootVars

\* A copy that reads the first word of the load image every time
DataCopyFirstWord ==
    /\ Booting("data_copy")
    /\ boot' = [boot EXCEPT !.pc = "data_cmp",
                   !.ram = [@ EXCEPT ![boot.r[1]] = Rom(boot.r[0])],
                   !.r = [@ EXCEPT ![3] = Rom(boot.r[0]),
                                   ![1] = boot.r[1] + 4]]
    /\ UNCHANGED nonBootVars

\* 0: ldr r3, [r0], #4; str r3, [r1], #4
DataCopy ==
    /\ Booting("data_copy")
    /\ boot' = [boot EXCEPT !.pc = "data_cmp",
                   !.ram = [@ EXCEPT ![boot.r[1]] = Rom(boot.r[0])],
                   !.r = [@ EXCEPT ![3] = Rom(boot.r[0]),
                                   ![0] = boot.r[0] + 4,
                                   ![1] = boot.r[1] + 4]]
    /\ UNCHANGED nonBootVars

\* ldr r0, =_bss; ldr r1, =_ebss; movs r2, #0; b 1f
BssInit ==
    /\ Booting("bss_init")
    /\ boot' = [boot EXCEPT !.pc = "bss_cmp",
                   !.r = [@ EXCEPT ![0] = boot.edata, ![1] = boot.ebss,
                                   ![2] = 0]]
    /\ UNCHANGED nonBootVars

\* 1: cmp r0, r1; bne 0b
BssCmp ==
    /\ Booting("bss_cmp")
    /\ boot' = [boot EXCEPT !.pc = IF boot.r[0] # boot.r[1] THEN "bss_store"
                                   ELSE "hooks_init"]
    /\ UNCHANGED nonBootVars

\* 0: str r2, [r0], #4
BssStore ==
    /\ Booting("bss_store")
    /\ boot' = [boot EXCEPT !.pc = "bss_cmp",
                   !.ram = [@ EXCEPT ![boot.r[0]] = boot.r[2]],
                   !.r = [@ EXCEPT ![0] = boot.r[0] + 4]]
    /\ UNCHANGED nonBootVars

\* ldr r4, =_embrs_init_array_start; ldr r5, =_embrs_init_array_end; b 1f
HooksInit ==
    /\ Booting("hooks_init")
    /\ boot' = [boot EXCEPT !.pc = "hooks_cmp",
                   !.r = [@ EXCEPT ![4] = InitArrayStart,
                                   ![5] = boot.init_end]]
    /\ UNCHANGED nonBootVars

\* 1: cmp r4, r5; bne 0b
HooksCmp ==
    /\ Booting("hooks_cmp")
    /\ boot' = [boot EXCEPT !.pc = IF boot.r[4] # boot.r[5] THEN "hook_call"
                                   ELSE "main_jump"]
    /\ UNCHANGED nonBootVars

\* 0: ldr r0, [r4], #4; blx r0.  The hook runs and returns; by the
\* procedure call standard it may leave anything in r0-r3 and keeps r4, r5.
\* The hooks of this crate write no RAM.
HookCall ==
    /\ Booting("hook_call")
    /\ \E c \in {0, 1} :
          boot' = [boot EXCEPT !.pc = "hooks_cmp",
                      !.r = [i \in 0 .. 5 |->
                                IF i = 4 THEN boot.r[4] + 4
                                ELSE IF i < 4 THEN c ELSE boot.r[i]],
                      !.hooks = Append(@, [hook |-> Rom(boot.r[4]),
                                           ram |-> boot.ram])]
    /\ UNCHANGED nonBootVars

\* movs r0, #0; movs r1, #1; b embrs_main
MainJump ==
    /\ Booting("main_jump")
    /\ boot' = [boot EXCEPT !.pc = "embrs_main",
                   !.r = [@ EXCEPT ![0] = 0, ![1] = 1]]
    /\ UNCHANGED nonBootVars

NextBoot ==
    \/ DataInit \/ DataCmp \/ DataCopy
    \/ BssInit \/ BssCmp \/ BssStore
    \/ HooksInit \/ HooksCmp \/ HookCall
    \/ MainJump

\* The reset routine on a processor that keeps executing
SpecBoot == InitBoot /\ [][NextBoot]_vars /\ WF_vars(NextBoot)

\* Fields the clock code never writes, one in each register it updates
\* with a plain read-modify-write: CR.CSSON, CFGR.MCO1 (low bit) and
\* ACR.PRFTEN
IsrFields == {<<"cr", 19>>, <<"cfgr", 21>>, <<"acr", 8>>}

\* An interrupt handler that preempts configure_clocks, once, sets one of
\* these bits with its own update_cr / update_cfgr / update_acr and returns
IrqWrite ==
    /\ pc \notin {"idle", "done"}
    /\ isr = {}
    /\ \E f \in IsrFields :
          /\ cr' = IF f[1] = "cr"
                   THEN Stored(cr, with_csson(cr, TRUE), CrReadOnly) ELSE cr
          /\ cfgr' = IF f[1] = "cfgr"
                     THEN Stored(cfgr, Or(cfgr, {f[2]}), CfgrReadOnly) ELSE cfgr
          /\ acr' = IF f[1] = "acr" THEN with_prften(acr, TRUE) ELSE acr
          /\ isr' = isr \cup {f}
    /\ UNCHANGED <<pllcfgr, hse_ok, pc, cfg, tmp, wlog, obs, calls, entry>>
    /\ UNCHANGED <<enableVars, bitsVars, fieldVars, speedVars, gpioVars>>
    /\ UNCHANGED <<nvicVars, atomicVars, bootVars>>

NextPreempt == Next \/ IrqWrite

\* configure_clocks preempted by interrupt handlers that write other
\* fields of the same registers
SpecPreempt == Init /\ [][NextPreempt]_vars

\* configure_clocks under the scheduling the code relies on: the processor
\* keeps executing, and each hardware flag follows its enable bit eventually
SpecLive ==
    /\ Init
    /\ [][Next]_vars
    /\ WF_vars(ConfigureUpToHse)
    /\ WF_vars(ConfigureAfterHse)
    /\ WF_vars(HwHsiReady)
    /\ WF_vars(HwHseReady)
    /\ WF_vars(HwPllLock)
    /\ WF_vars(HwPllUnlock)
    /\ WF_vars(HwSwitch)

----------------------------------------------------------------------------
(* Properties of configure_clocks                                           *)

\* Entries of the write log of the current call
Writes == {wlog[i] : i \in 1 .. Len(wlog)}

IsPrescalerWrite(w) ==
    /\ w.reg = "cfgr"
    /\ get_hpre(w.val) = cfg.ahb_divisor
    /\ get_ppre1(w.val) = cfg.apb1_divisor
    /\ get_ppre2(w.val) = cfg.apb2_divisor

IsLatencyWrite(w) ==
    w.reg = "acr" /\ ToNat(get_latency(w.val)) = cfg.flash_latency % 8

\* A CR write that turns PLLON on
SetsPllon(w) == w.reg = "cr" /\ get_pllon(w.val) /\ ~get_pllon(w.old)

\* A CR write that turns PLLON off
ClearsPllon(w) == w.reg = "cr" /\ ~get_pllon(w.val) /\ get_pllon(w.old)

SelectsPll(w) == w.reg = "cfgr" /\ get_sw(w.val) = <<"Ok", "Pll">>

SelectsHsi(w) == w.reg = "cfgr" /\ get_sw(w.val) = <<"Ok", "Hsi">>

\* Some write satisfying P precedes position i of the write log
Earlier(i, P(_)) == \E j \in 1 .. (i - 1) : P(wlog[j])

\* The last value read by poll l satisfies P
LastRead(l, P(_)) == obs[l] # <<>> /\ P(obs[l][1])

\* This step appends a write to register r to the write log
WritesNow(r) ==
    /\ Len(wlog') = Len(wlog) + 1
    /\ wlog'[Len(wlog')].reg = r

ReadsHsi(v) == get_sws(v) = <<"Ok", "Hsi">>

ReadsPllUnlocked(v) == ~get_pllrdy(v)

\* C1: in the writes of one call, the CFGR write carrying cfg's prescalers
\* and the ACR write carrying cfg's latency both precede the CR write that
\* turns PLLON on, which precedes the CFGR write selecting SW = PLL; a
\* completed call has issued all of them.
C1_WriteOrder ==
    /\ \A i \in 1 .. Len(wlog) :
          SetsPllon(wlog[i]) =>
              Earlier(i, IsPrescalerWrite) /\ Earlier(i, IsLatencyWrite)
    /\ \A i \in 1 .. Len(wlog) :
          SelectsPll(wlog[i]) => Earlier(i, SetsPllon)
    /\ pc = "done" => \E w \in Writes : SelectsPll(w)

\* A second call, entered while running from the PLL, has completed
C1_Witness ==
    /\ pc = "done" /\ calls = 2
    /\ get_pllon(entry.cr) /\ get_sws(entry.cfgr) = <<"Ok", "Pll">>
    /\ \E w \in Writes : SetsPllon(w)

\* C2: every step that writes PLLCFGR is taken in a state where PLLON is 0,
\* PLLRDY is 0 and was last polled as 0, and SWS is HSI and was last polled
\* as HSI.
C2_PllcfgrWriteSafe ==
    [][WritesNow("pllcfgr") =>
          /\ ~get_pllon(cr) /\ ~get_pllrdy(cr)
          /\ get_sws(cfgr) = <<"Ok", "Hsi">>
          /\ LastRead("pllrdy_clr_poll", ReadsPllUnlocked)
          /\ LastRead("sws_hsi_poll", ReadsHsi)]_vars

\* PLLCFGR has been written in a call entered with the PLL on and selected
C2_Witness ==
    /\ pc = "pllon_rd"
    /\ get_pllon(entry.cr) /\ get_sws(entry.cfgr) = <<"Ok", "Pll">>
    /\ \E w \in Writes : w.reg = "pllcfgr"

\* C3: a step that turns PLLON off is taken only after SW = HSI was written
\* and SWS was polled as HSI, and SWS never reads PLL while PLLON is 0.
C3_PllOffAfterSwitch ==
    [][/\ (get_pllon(cr) /\ ~get_pllon(cr')) =>
              /\ \E w \in Writes : SelectsHsi(w)
              /\ LastRead("sws_hsi_poll", ReadsHsi)
       /\ get_sws(cfgr) = <<"Ok", "Pll">> => get_pllon(cr)
       /\ get_sws(cfgr') = <<"Ok", "Pll">> => get_pllon(cr')]_vars

\* The PLL has been switched off in a second call, entered in the final
\* state of the first
C3_Witness ==
    /\ calls = 2 /\ pc = "pllrdy_clr_poll"
    /\ get_sws(entry.cfgr) = <<"Ok", "Pll">>
    /\ get_pllsrc(entry.pllcfgr) = "Hse"
    /\ ~get_pllon(cr)
    /\ \E w \in Writes : ClearsPllon(w)

\* C4: with a working crystal, every call of configure_clocks returns.
C4_Terminates == (pc = ProgramOrder[1] /\ hse_ok) ~> (pc = "done")

\* A second call with another ClockConfig than the first has returned
C4_Witness ==
    /\ pc = "done" /\ calls = 2 /\ hse_ok
    /\ get_sws(entry.cfgr) = <<"Ok", "Pll">>
    /\ get_pllsrc(entry.pllcfgr) = "Hse"
    /\ ToNat(get_pllm(entry.pllcfgr)) # cfg.crystal_divisor % 64

\* C5: when configure_clocks(cfg) has returned, PLLCFGR, the prescalers,
\* the Flash latency, the three enable bits and the clock switch hold what
\* cfg asks for, with each u32 field reduced modulo its field's size.
C5_FinalState ==
    pc = "done" =>
        /\ ToNat(get_pllm(pllcfgr)) = cfg.crystal_divisor % 64
        /\ ToNat(get_plln(pllcfgr)) = cfg.vco_multiplier % 512
        /\ get_pllp(pllcfgr) = cfg.general_divisor
        /\ ToNat(get_pllq(pllcfgr)) = cfg.pll48_divisor % 16
        /\ get_pllsrc(pllcfgr) = "Hse"
        /\ get_hpre(cfgr) = cfg.ahb_divisor
        /\ get_ppre1(cfgr) = cfg.apb1_divisor
        /\ get_ppre2(cfgr) = cfg.apb2_divisor
        /\ ToNat(get_latency(acr)) = cfg.flash_latency % 8
        /\ get_hsion(cr) /\ get_hseon(cr) /\ get_pllon(cr)
        /\ get_sw(cfgr) = <<"Ok", "Pll">>
        /\ get_sws(cfgr) = <<"Ok", "Pll">>

\* The call with the oversized ClockConfig has returned, having been entered
\* with other prescalers, HSI off and HSE selected
C5_Witness ==
    /\ pc = "done" /\ cfg = WideClocks
    /\ ~get_hsion(entry.cr)
    /\ get_sws(entry.cfgr) = <<"Ok", "Hse">>
    /\ get_hpre(entry.cfgr) # cfg.ahb_divisor

\* The statements after the HSE-ready poll, and the return
AfterHsePoll ==
    LET i == CHOOSE k \in 1 .. Len(ProgramOrder) :
                 ProgramOrder[k] = "hserdy_poll"
    IN  {ProgramOrder[k] : k \in (i + 1) .. Len(ProgramOrder)}

\* C6: if the crystal never starts, the call never gets past the HSE-ready
\* poll, and while it polls: the system clock is HSI, PLLON is 0, PLLCFGR
\* is as on entry and unwritten, cfg's prescalers and latency are in place,
\* and the six writes made so far are all there are.
C6_StuckAtHsePoll ==
    ~hse_ok =>
        /\ pc \notin AfterHsePoll
        /\ pc = "hserdy_poll" =>
              /\ get_sws(cfgr) = <<"Ok", "Hsi">>
              /\ get_sw(cfgr) = <<"Ok", "Hsi">>
              /\ ~get_pllon(cr)
              /\ ~get_hserdy(cr)
              /\ pllcfgr = entry.pllcfgr
              /\ \A w \in Writes : w.reg # "pllcfgr"
              /\ get_hpre(cfgr) = cfg.ahb_divisor
              /\ get_ppre1(cfgr) = cfg.apb1_divisor
              /\ get_ppre2(cfgr) = cfg.apb2_divisor
              /\ ToNat(get_latency(acr)) = cfg.flash_latency % 8
              /\ Len(wlog) = 6

\* The poll has read HSERDY = 0 with a dead crystal, in a call that was
\* entered while running from the PLL
C6_Witness ==
    /\ ~hse_ok /\ pc = "hserdy_poll"
    /\ LastRead("hserdy_poll", LAMBDA v : ~get_hserdy(v))
    /\ get_sws(entry.cfgr) = <<"Ok", "Pll">>
    /\ get_hseon(cr)

----------------------------------------------------------------------------
(* Properties of enable_clock                                               *)

\* The events of thread t, oldest first
EventsOf(t) == SelectSeq(elog, LAMBDA e : e.t = t)

\* The clock-enable bit of peripheral p is set in its bus's ENR register
EnabledIn(kind, p) == get_bit_index(p) \in Enr(kind, get_bus(p))

\* Every bit set at the start is still set
InitialBitsKept ==
    /\ \A i \in 1 .. 3 : enr0.ahb[i] \subseteq ahb_enr[i]
    /\ \A i \in 1 .. 2 : enr0.apb[i] \subseteq apb_enr[i]

\* The successful exclusive stores so far
Stores == {e \in {elog[i] : i \in 1 .. Len(elog)} : e.e = "store"}

\* C7: wherever interrupt handlers preempt the foreground enable_clock, no
\* enable bit is lost: the bit of every successful store is set from then
\* on, every initially set bit stays set, and a call that has returned has
\* stored its bit.
C7_NoLostEnable ==
    /\ \A e \in Stores : EnabledIn(e.kind, e.p)
    /\ InitialBitsKept
    /\ \A t \in Threads :
          thr[t].pc = "returned" =>
              \E e \in Stores : e.t = t /\ e.p = thr[t].p /\ e.kind = thr[t].kind
    /\ (thr.fg.pc = "returned" /\ thr.irq.pc = "returned") =>
          /\ EnabledIn(thr.fg.kind, thr.fg.p)
          /\ EnabledIn(thr.irq.kind, thr.irq.p)

\* The foreground call's first exclusive store failed because a handler
\* enabled another peripheral on the same register in between; both calls
\* have returned
C7_Witness ==
    /\ thr.fg.pc = "returned" /\ thr.irq.pc = "returned"
    /\ thr.fg.kind = thr.irq.kind
    /\ get_bus(thr.fg.p) = get_bus(thr.irq.p)
    /\ thr.fg.p # thr.irq.p
    /\ \E i \in 1 .. Len(elog) : elog[i].t = "fg" /\ elog[i].e = "fail"
    /\ enr0.ahb[1] # FromNat(0)

\* The peripherals of the two tables without a clock-enable bit
Uncontrollable ==
    {AhbPeripheral[n] : n \in {"FlashIface", "Sram1", "Sram2", "Sram3"}}

AllPeripherals ==
    {AhbPeripheral[n] : n \in DOMAIN AhbPeripheral}
    \cup {ApbPeripheral[n] : n \in DOMAIN ApbPeripheral}

\* has_enr over the two tables
HasEnrExceptUncontrollable ==
    \A p \in AllPeripherals : has_enr(p) <=> p \notin Uncontrollable

\* C8: has_enr is false exactly for FlashIface, Sram1, Sram2 and Sram3; a
\* call for one of them panics having accessed no register (it has no
\* event and never gets past the check), and a call for any other
\* peripheral never panics.
C8_PanicWithoutEnr ==
    /\ HasEnrExceptUncontrollable
    /\ \A t \in Threads :
          /\ thr[t].pc = "panicked" => thr[t].p \in Uncontrollable
          /\ (thr[t].pc \notin {"idle", "check"} /\ thr[t].p \in Uncontrollable)
                => /\ thr[t].pc = "panicked"
                   /\ \A i \in 1 .. Len(elog) :
                         ~(elog[i].t = t /\ elog[i].p = thr[t].p)
    /\ (thr.fg.pc = "panicked" /\ irqs = 0) =>
          /\ ahb_enr = enr0.ahb /\ apb_enr = enr0.apb
          /\ elog = <<>>

\* The foreground call for Sram3 has panicked
C8_Witness ==
    /\ thr.fg.pc = "panicked"
    /\ thr.fg.p = AhbPeripheral["Sram3"]
    /\ irqs = 0

\* C9: the barrier of each call comes directly after that call's
\* successful store, and a call that has returned ends with the pair.
C9_BarrierAfterStore ==
    \A t \in Threads :
        LET ev == EventsOf(t)
        IN  /\ \A i \in 1 .. Len(ev) :
                  ev[i].e = "dsb" =>
                      /\ i > 1
                      /\ ev[i - 1].e = "store"
                      /\ ev[i - 1].p = ev[i].p
                      /\ EnabledIn(ev[i].kind, ev[i].p)
            /\ thr[t].pc = "returned" =>
                  /\ Len(ev) >= 2
                  /\ ev[Len(ev)].e = "dsb"
                  /\ ev[Len(ev)].p = thr[t].p

\* The foreground call has returned after a failed and a successful store
C9_Witness ==
    /\ thr.fg.pc = "returned"
    /\ \E i \in 1 .. Len(elog) : elog[i].t = "fg" /\ elog[i].e = "fail"
    /\ elog[Len(elog)].t = "fg" /\ elog[Len(elog)].e = "dsb"

----------------------------------------------------------------------------
(* Properties of bitfield_replace                                           *)

\* new mod 2^(hi - lo + 1)
Truncated(new, hi, lo) == {b \in new : b < hi - lo + 1}

\* new = 0b110 and new = 0b10 give the same word for the field [17:16]
SameForField17_16 ==
    \A orig \in BitsOrigs :
        /\ bitfield_replace(orig, 17, 16, FromNat(6))
              = bitfield_replace(orig, 17, 16, FromNat(2))
        /\ bitfield_replace(orig, 17, 16, FromNat(6))
              = (orig \ {16}) \cup {17}

\* C10: bitfield_replace(orig, hi, lo, new) equals bitfield_replace of new
\* mod 2^(hi-lo+1), and every bit of the result outside [lo, hi] is the
\* same bit of orig; 0b110 and 0b10 give the same result for [17:16].
C10_ReplaceTruncates ==
    /\ SameForField17_16
    /\ bf.op \notin {"none", "args"} =>
          /\ bf.result = bitfield_replace(bf.orig, bf.hi, bf.lo,
                                          Truncated(bf.new, bf.hi, bf.lo))
          /\ bitfield_replace(bf.orig, bf.hi, bf.lo, bf.new)
                = bitfield_replace(bf.orig, bf.hi, bf.lo,
                                   Truncated(bf.new, bf.hi, bf.lo))
          /\ \A b \in BitPositions \ (bf.lo .. bf.hi) :
                b \in bf.result <=> b \in bf.orig

\* A narrow field below the top of the word was replaced by a value with
\* bits above the field's width, next to bits of orig that are 0
C10_Witness ==
    /\ bf.op = "replaced"
    /\ bf.hi < 31
    /\ Truncated(bf.new, bf.hi, bf.lo) # bf.new
    /\ (bf.hi + 1) \notin bf.orig
    /\ (bf.hi - bf.lo + 1) \in bf.new
    /\ bf.result # bf.orig

\* C11: replacing a field by what bitfield_extract read from it gives the
\* word back, and bitfield_extract after bitfield_replace with n gives
\* n mod 2^(hi-lo+1).
C11_RoundTrip ==
    /\ bf.op = "restored" => bf.restored = bf.orig
    /\ bf.op \in {"extracted", "read", "restored"} =>
          bf.field = Truncated(bf.new, bf.hi, bf.lo)

\* Both round trips were made on a field inside the word: the field of orig
\* is not zero, and new is wider than the field and differs from it
C11_Witness ==
    /\ bf.op = "restored"
    /\ bf.lo > 0 /\ bf.hi < 31 /\ bf.hi > bf.lo
    /\ bf.origField # FromNat(0)
    /\ bf.origField # bf.orig
    /\ bf.field # bf.new
    /\ bf.field # bf.origField

\* (1 << width) - 1 for every field narrower than the word: the shifted 1
\* stays inside the word and the mask is the low `width` bits
NarrowMasksExact ==
    \A hi \in BitPositions : \A lo \in 0 .. hi :
        LET width == hi - lo + 1
        IN  width < RegWidth =>
                /\ Shl(FromNat(1), width) = {width}
                /\ FieldMask(hi, lo) = 0 .. (width - 1)

\* C12: for the field [31:0] the mask is all ones, so bitfield_extract
\* returns the word and bitfield_replace returns new; for every narrower
\* field (1 << width) - 1 does not overflow.
C12_FullWidthMask ==
    /\ NarrowMasksExact
    /\ FieldMask(31, 0) = AllOnes
    /\ (bf.op = "restored" /\ bf.hi = 31 /\ bf.lo = 0) =>
          /\ bf.result = bf.new
          /\ bf.field = bf.new
          /\ bf.origField = bf.orig
          /\ bf.restored = bf.orig

\* The whole word was replaced by a value with bit 31 set
C12_Witness ==
    /\ bf.op = "restored"
    /\ bf.hi = 31 /\ bf.lo = 0
    /\ 31 \in bf.new /\ 31 \notin bf.orig
    /\ bf.result = bf.new

----------------------------------------------------------------------------
(* Properties of the generated accessors and conversions                    *)

\* The content of the field of accessor a in the word raw, right-aligned
FieldOf(a, raw) == {b - a[4] : b \in raw \cap (a[4] .. a[3])}

\* 0 decodes to false, 1 to true, and no other pattern decodes to a bool
BoolDecodesOnly01 ==
    /\ bool_from_bits(FromNat(0)) = <<"Ok", FALSE>>
    /\ bool_from_bits(FromNat(1)) = <<"Ok", TRUE>>
    /\ \A b \in (BitsNews \cup {FromNat(3), {1, 0, 8}}) \ {FromNat(0), FromNat(1)} :
          bool_from_bits(b)[1] = "Err" /\ bool_from_bits(b)[2] = b

\* C13: for bool and every bit_enum type, into_bits gives back the pattern
\* that from_bits or from_bits_total decoded, from_bits(into_bits(v)) is
\* Ok(v) for every value v, and bool decodes 0 and 1 only.
C13_EncodeInvertsDecode ==
    /\ BoolDecodesOnly01
    /\ (fd.op = "put" /\ fd.acc[5] \notin {"u8", "u32"}) =>
          /\ into_bits(fd.acc[5], Value(fd.acc, fd.got)) = FieldOf(fd.acc, fd.raw)
          /\ fd.back = fd.raw
    /\ fd.op = "decoded" =>
          /\ fd.res[1] = "Ok" /\ fd.res[2] = fd.v
          /\ fd.tot = fd.v

\* A FifoLevel read as Full from a word with other bits set was written
\* back
C13_Witness ==
    /\ fd.op = "put"
    /\ fd.acc[2] = "get_fs"
    /\ fd.got = <<"Ok", "Full">>
    /\ 31 \in fd.raw
    /\ fd.back = fd.raw

\* C14: the getter of an accessor declared total never reaches
\* unreachable!(), whatever the register holds.
C14_TotalNeverUnreachable ==
    (fd.op \in {"got", "put"} /\ fd.acc[6]) => ~Unreachable(fd.got)

\* get_hpre_div read 0b100 from a word with every other bit set
C14_Witness ==
    /\ fd.op = "got"
    /\ fd.acc = <<"rcc::Cfgr", "get_hpre_div", 6, 4, "AhbPrescaler", TRUE>>
    /\ FieldOf(fd.acc, fd.raw) = FromNat(4)
    /\ 31 \in fd.raw
    /\ ~Unreachable(fd.got)

\* C15: the getter of an accessor declared without total returns
\* Err(BadBits(p)) with p the field content when the type has no value for
\* p, and Ok of the variant whose value is p otherwise.
C15_PartialReportsBadBits ==
    (fd.op \in {"got", "put"} /\ ~fd.acc[6]) =>
        LET p == FieldOf(fd.acc, fd.raw)
            ty == fd.acc[5]
        IN  IF ty = "bool"
            THEN fd.got[1] = "Ok" /\ (fd.got[2] <=> p = {0})
            ELSE IF \E n \in DOMAIN BitEnums[ty] : BitEnums[ty][n] = ToNat(p)
                 THEN fd.got[1] = "Ok" /\ BitEnums[ty][fd.got[2]] = ToNat(p)
                 ELSE fd.got[1] = "Err" /\ fd.got[2] = p

\* get_sws read the reserved pattern 0b11 from a word with every other bit
\* set
C15_Witness ==
    /\ fd.op = "got"
    /\ fd.acc[2] = "get_sws"
    /\ 31 \in fd.raw
    /\ fd.got = <<"Err", FromNat(3)>>

----------------------------------------------------------------------------
(* Properties of compute_speeds                                             *)

\* The divisor an optional prescaler stands for; None counts as 1
DivisorOf(o) ==
    IF o = <<>> THEN 1
    ELSE CASE o[1] = "Div2" -> 2     [] o[1] = "Div4" -> 4
           [] o[1] = "Div6" -> 6     [] o[1] = "Div8" -> 8
           [] o[1] = "Div16" -> 16   [] o[1] = "Div64" -> 64
           [] o[1] = "Div128" -> 128 [] o[1] = "Div256" -> 256
           [] o[1] = "Div512" -> 512

\* C16: with exact divisions, cpu = crystal_hz / crystal_divisor *
\* vco_multiplier / divisor(general_divisor), ahb = cpu / divisor(ahb_divisor)
\* and pll48 = crystal_hz / crystal_divisor * vco_multiplier / pll48_divisor;
\* the CLOCKS of main.rs give cpu = ahb = 160 MHz, apb1 = 40 MHz and
\* apb2 = 80 MHz.
C16_SpeedsOfExactConfig ==
    spd.op = "computed" =>
        LET c == spd.cfg
            r == spd.speeds
            vout == (c.crystal_hz \div c.crystal_divisor) * c.vco_multiplier
        IN  /\ r.cpu * DivisorOf(<<c.general_divisor>>) = vout
            /\ r.ahb * DivisorOf(c.ahb_divisor) = r.cpu
            /\ r.pll48 * c.pll48_divisor = vout
            /\ c = Clocks =>
                  /\ r.cpu = 160000000 /\ r.ahb = 160000000
                  /\ r.apb1 = 40000000 /\ r.apb2 = 80000000

\* compute_speeds has returned for the CLOCKS of main.rs
C16_Witness ==
    /\ spd.op = "computed"
    /\ spd.cfg = Clocks
    /\ spd.speeds.ahb = 160000000

\* C17: the APB prescalers divide the AHB clock: apb1 = ahb /
\* divisor(apb1_divisor) and apb2 = ahb / divisor(apb2_divisor), also when
\* ahb_divisor is Some(d).
C17_ApbFromAhb ==
    spd.op = "computed" =>
        /\ spd.speeds.apb1 * DivisorOf(spd.cfg.apb1_divisor) = spd.speeds.ahb
        /\ spd.speeds.apb2 * DivisorOf(spd.cfg.apb2_divisor) = spd.speeds.ahb

----------------------------------------------------------------------------
(* Properties of configure_clocks: atomicity and the PLLCFGR write          *)

\* The register named r
RegNamed(r) ==
    CASE r = "cr" -> cr [] r = "cfgr" -> cfgr
      [] r = "acr" -> acr [] r = "pllcfgr" -> pllcfgr

\* The bits of register r that the hardware owns
ReadOnlyOf(r) ==
    CASE r = "cr" -> CrReadOnly [] r = "cfgr" -> CfgrReadOnly [] OTHER -> {}

\* Every bit changed by the last write configure_clocks made to a register
\* is as written
ControllerChangeKept ==
    \A i \in 1 .. Len(wlog) :
        (\A j \in (i + 1) .. Len(wlog) : wlog[j].reg # wlog[i].reg) =>
            \A b \in BitPositions \ ReadOnlyOf(wlog[i].reg) :
                (b \in wlog[i].val <=> b \in wlog[i].old)
                \/ (b \in RegNamed(wlog[i].reg) <=> b \in wlog[i].val)

\* C18: the read-modify-writes of configure_clocks are atomic with respect
\* to interrupt handlers: a bit that a handler set in another field of the
\* same register is still set after the controller's write, and the
\* controller's change is not lost.
C18_UpdatesAtomic ==
    /\ \A f \in isr : f[2] \in RegNamed(f[1])
    /\ ControllerChangeKept

\* The writes to PLLCFGR of the current call
PllcfgrWrites == {w \in Writes : w.reg = "pllcfgr"}

\* The positions in the write log of the writes to PLLCFGR
PllcfgrWriteAt == {i \in 1 .. Len(wlog) : wlog[i].reg = "pllcfgr"}

\* C19: a call writes PLLCFGR once, with PLLM, PLLN, PLLP, PLLQ and the HSE
\* source in that one value; the register only ever holds its value at
\* entry or that value.
C19_OnePllcfgrWrite ==
    /\ Cardinality(PllcfgrWriteAt) <= 1
    /\ pc = "done" => Cardinality(PllcfgrWriteAt) = 1
    /\ \A w \in PllcfgrWrites :
          /\ ToNat(get_pllm(w.val)) = cfg.crystal_divisor % 64
          /\ ToNat(get_plln(w.val)) = cfg.vco_multiplier % 512
          /\ get_pllp(w.val) = cfg.general_divisor
          /\ ToNat(get_pllq(w.val)) = cfg.pll48_divisor % 16
          /\ get_pllsrc(w.val) = "Hse"
          /\ w.old = entry.pllcfgr
    /\ pllcfgr \in {entry.pllcfgr} \cup {w.val : w \in PllcfgrWrites}

\* PLLCFGR has been written in a call entered with the PLL fed by HSI and
\* with other divisors than the configuration asks for
C19_Witness ==
    /\ pc = "done"
    /\ Cardinality(PllcfgrWriteAt) = 1
    /\ get_pllsrc(entry.pllcfgr) = "Hsi"
    /\ ToNat(get_pllm(entry.pllcfgr)) # cfg.crystal_divisor % 64
    /\ get_pllp(entry.pllcfgr) # cfg.general_divisor
    /\ pllcfgr # entry.pllcfgr

\* The alternate-function field of pin n: bits [4*(n mod 8)+3 : 4*(n mod 8)]
\* of AFRL for pins 0-7 and of AFRH for pins 8-15
AfField(l, h, n) ==
    bitfield_extract(IF n < 8 THEN l ELSE h, 4 * (n % 8) + 3, 4 * (n % 8))

\* When set_alternate_function has returned, every unselected pin's field
\* is what it was before the call
UnselectedKept ==
    gp.op = "returned" =>
        \A n \in 0 .. 15 :
            n \notin gp.pins =>
                AfField(gp.afrl, gp.afrh, n) = AfField(gp.afrl0, gp.afrh0, n)

\* When set_alternate_function has returned, every selected pin other than
\* pin 7 and pin 15 has its field equal to af
SelectedBelow7Set ==
    gp.op = "returned" =>
        \A n \in gp.pins \ {7, 15} :
            AfField(gp.afrl, gp.afrh, n) = FromNat(gp.af)

\* C20: when set_alternate_function(pins, af) has returned, the 4-bit field
\* of every pin selected by pins (pins 0-7 in AFRL, pins 8-15 in AFRH, pin n
\* at bits [4*(n mod 8)+3 : 4*(n mod 8)]) holds af, and the field of every
\* unselected pin is what it was before the call
C20_SetsSelectedFields ==
    gp.op = "returned" =>
        \A n \in 0 .. 15 :
            AfField(gp.afrl, gp.afrh, n) =
                IF n \in gp.pins THEN FromNat(gp.af)
                ELSE AfField(gp.afrl0, gp.afrh0, n)

\* get_priority decodes every content of a priority byte to a Priority
EveryByteDecodes ==
    \A b \in 0 .. 255 :
        get_priority([i \in {0} |-> b], 0) \in DOMAIN Priority

\* C21: set_priority(irq, p) followed by get_priority(irq) returns p and
\* leaves the priority byte of every other interrupt as it was, and
\* get_priority never reaches unreachable!(), whatever the byte holds
C21_PriorityRoundTrip ==
    /\ EveryByteDecodes
    /\ nv.op \in {"got", "read"} => nv.got \in DOMAIN Priority
    /\ nv.op \in {"set", "got"} =>
          \A i \in Interrupt \ {nv.irq} : nv.ipr[i] = nv.ipr0[i]
    /\ nv.op = "got" => nv.got = nv.p

\* set_priority(Dma2d, P15) on bytes holding 0x53, read back as P15
C21_Witness ==
    /\ nv.op = "got"
    /\ nv.irq = 90
    /\ nv.p = "P15"
    /\ nv.got = "P15"
    /\ nv.ipr0[90] = 83
    /\ nv.ipr0[89] = 15

\* C22: in the writes of one call, the CR write that turns PLLON on is
\* there only if the HSE-ready poll last read HSERDY = 1, and the CFGR
\* write selecting SW = PLL only if the PLLON write precedes it and the
\* PLL-ready poll, which follows that write, last read PLLRDY = 1
C22_WritesGatedOnPolls ==
    \A i \in 1 .. Len(wlog) :
        /\ SetsPllon(wlog[i]) => LastRead("hserdy_poll", get_hserdy)
        /\ SelectsPll(wlog[i]) =>
              /\ Earlier(i, SetsPllon)
              /\ LastRead("pllrdy_poll", get_pllrdy)

\* A second call in a row has selected the PLL, its PLL-ready poll having
\* read PLLRDY = 1 after the PLL had been on and locked at entry
C22_Witness ==
    /\ calls = 2
    /\ get_pllrdy(entry.cr)
    /\ \E i \in 1 .. Len(wlog) : SelectsPll(wlog[i]) /\ Earlier(i, SetsPllon)
    /\ LastRead("pllrdy_poll", get_pllrdy)
    /\ LastRead("hserdy_poll", get_hserdy)

\* The SWS bits of the source each switch-status poll waits for
ExpectedSws(l) ==
    enum_into_bits(ClockSwitch, IF l = "sws_hsi_poll" THEN "Hsi" ELSE "Pll")

\* C23: while configure_clocks is at a switch-status poll and SWS holds
\* the reserved pattern 0b11 or a source other than the expected one, no
\* step leaves the poll, returns, or issues a write
C23_BadSwsKeepsPolling ==
    [][\A l \in {"sws_hsi_poll", "sws_pll_poll"} :
          (pc = l /\ bitfield_extract(cfgr, 3, 2) # ExpectedSws(l)) =>
              /\ pc' = l
              /\ wlog' = wlog
              /\ calls' = calls
              /\ obs'[l] \in {obs[l], <<cfgr>>}]_vars

\* The poll after the switch to HSI has read the reserved pattern, decoded
\* as BadBits(3), and is still polling
C23_Witness ==
    /\ pc = "sws_hsi_poll"
    /\ LET IsBadBits3(v) == get_sws(v) = <<"Err", FromNat(3)>>
       IN  LastRead("sws_hsi_poll", IsBadBits3)

\* Positions of the events named e in the log of the atomic operation
RmwAt(e) == {i \in 1 .. Len(rmw.log) : rmw.log[i].e = e}

\* Bit b of the result of the called operation on a register holding v
ResultBit(b, v) ==
    \/ rmw.op # "atomic_nand" /\ b \in rmw.set
    \/ b \in v /\ ~(rmw.op # "atomic_or" /\ b \in rmw.clear)

\* C24: a call performs at most one successful store, exactly one once it
\* has returned; the store directly follows the exclusive load of its own
\* attempt, with no handler's write in between, and stores the operation
\* applied to the value that load read; a failed exclusive store after a
\* handler's write leaves the register as the handler left it and is
\* followed by a new load
C24_OneStoreOfLoadedValue ==
    rmw.op # "none" =>
        /\ Cardinality(RmwAt("store")) <= 1
        /\ rmw.pc = "returned" <=> RmwAt("store") # {} /\ rmw.pc # "test"
        /\ \A i \in RmwAt("store") :
              /\ i > 1 /\ rmw.log[i - 1].e = "load"
              /\ \A b \in BitPositions :
                    b \in rmw.log[i].v <=> ResultBit(b, rmw.log[i - 1].v)
        /\ \A i \in RmwAt("fail") :
              /\ \E j \in RmwAt("irq") : j < i
              /\ rmw.log[i].v = rmw.log[i - 1].v
              /\ i < Len(rmw.log) =>
                    rmw.log[i + 1].e \in {"load", "irq"}
              /\ \A j \in RmwAt("store") : i < j

\* atomic_nand_and_or has returned after two exclusive loads: its first
\* exclusive store failed because a handler wrote the register in between
C24_Witness ==
    /\ rmw.op = "atomic_nand_and_or"
    /\ rmw.pc = "returned"
    /\ Cardinality(RmwAt("load")) = 2
    /\ Cardinality(RmwAt("fail")) = 1
    /\ Cardinality(RmwAt("store")) = 1
    /\ rmw.reg = rmw.log[Len(rmw.log)].v

\* The w-bit field of pin n in register value v: bits [w*n + w-1 : w*n]
PinField(v, w, n) == bitfield_extract(v, w * n + w - 1, w * n)

\* C25: when set_mode, set_speed, set_pull or set_output_type has
\* returned, the field of every selected pin in the setter's register (2
\* bits at [2n+1 : 2n], 1 bit for set_output_type) holds the given value,
\* the field of every unselected pin and every bit beyond the sixteen
\* fields are as before the call, and so are the other three registers
C25_SettersChangeSelectedFields ==
    gp.op = "set" =>
        LET s == GpioSetters[gp.method]
            new == gp.regs[s.reg]
            old == gp.regs0[s.reg]
        IN  /\ \A n \in 0 .. 15 :
                  PinField(new, s.width, n) =
                      IF n \in gp.pins THEN FromNat(s.values[gp.val])
                      ELSE PinField(old, s.width, n)
            /\ \A b \in BitPositions :
                  b >= 16 * s.width => (b \in new <=> b \in old)
            /\ \A r \in DOMAIN gp.regs \ {s.reg} : gp.regs[r] = gp.regs0[r]

\* set_mode(P7 | P15, Input) has cleared both bits of the two fields in a
\* MODER that held 0x5A5A5A5A
C25_Witness ==
    /\ gp.op = "set"
    /\ gp.method = "set_mode"
    /\ gp.pins = {7, 15}
    /\ gp.val = "Input"
    /\ 4 \in gp.regs0.moder /\ 15 \notin gp.regs0.moder
    /\ gp.regs.moder = gp.regs0.moder \ {14, 15, 30, 31}
    /\ gp.regs.moder # gp.regs0.moder

\* C26: for each optional prescaler X of Cfgr and every register value c,
\* c.with_X(v).get_X() is v; with_X(None) clears the enable bit and
\* changes nothing else, the divisor bits included; with_X(Some(d)) sets
\* the enable bit, puts d in the divisor bits and changes nothing else;
\* and get_X is None whenever the enable bit of c is 0
C26_OptionalPrescalers ==
    LET o == OptionalPrescalers[fd.x]
    IN  /\ fd.op = "with_get" => fd.got = fd.v
        /\ fd.op \in {"with", "with_get"} =>
              IF fd.v = <<>>
              THEN fd.result = fd.c \ {o.en}
              ELSE /\ o.en \in fd.result
                   /\ ToNat(Shr(fd.result, o.lo) \cap (0 .. (o.hi - o.lo)))
                          = o.E[fd.v[1]]
                   /\ fd.result \ (o.lo .. o.en) = fd.c \ (o.lo .. o.en)
        /\ fd.op = "get" /\ o.en \notin fd.c => fd.got = <<>>

\* with_hpre(None) on a Cfgr with HPRE enabled and divisor bits 0b111 has
\* kept the divisor bits, and get_hpre then gave None
C26_Witness ==
    /\ fd.op = "with_get"
    /\ fd.x = "hpre"
    /\ fd.v = <<>>
    /\ {4, 5, 6, 7} \subseteq fd.c
    /\ {4, 5, 6} \subseteq fd.result
    /\ fd.got = <<>>

\* In RAM contents m every word of [_data, _edata) equals its word of the
\* load image, every word of [_bss, _ebss) is zero, and the rest is as it
\* was
Initialized(m) ==
    \A a \in RamAddrs :
        m[a] = IF a < boot.edata THEN Rom(DataLoad + (a - DataStart))
               ELSE IF a < boot.ebss THEN 0
               ELSE RamGarbage(a)

\* The hooks of the init array, in array order
HooksInArray ==
    [j \in 1 .. (boot.init_end - InitArrayStart) \div 4 |->
        Rom(InitArrayStart + 4 * (j - 1))]

\* Every hook called so far ran on initialized RAM, and the hooks called
\* are the first ones of the init array, in its order
HooksAfterInit ==
    boot.op = "reset" =>
        /\ Len(boot.hooks) <= Len(HooksInArray)
        /\ \A j \in 1 .. Len(boot.hooks) :
              /\ boot.hooks[j].hook = HooksInArray[j]
              /\ Initialized(boot.hooks[j].ram)

\* At embrs_main RAM is initialized and every hook has been called
MainAfterAll ==
    Booting("embrs_main") =>
        /\ Initialized(boot.ram)
        /\ Len(boot.hooks) = Len(HooksInArray)

\* C27: for word-aligned sections with end >= start the reset routine
\* reaches embrs_main, and only with every word of .data copied from the
\* load image, every word of .bss zero and every init hook called exactly
\* once in array order; no hook runs before .data and .bss are initialized
C27_ResetReachesMain ==
    /\ [](HooksAfterInit /\ MainAfterAll)
    /\ <>Booting("embrs_main")

\* embrs_main reached with two words copied, two zeroed, two hooks called
C27_Witness ==
    /\ Booting("embrs_main")
    /\ boot.ram[DataStart] = 11 /\ boot.ram[DataStart + 4] = 22
    /\ boot.ram[DataStart + 8] = 0 /\ boot.ram[DataStart + 12] = 0
    /\ Len(boot.hooks) = 2
    /\ boot.hooks[1].hook = 1 /\ boot.hooks[2].hook = 2

\* The bits configure_clocks names in each register: HSION, HSEON, PLLON;
\* SW, HPRE, PPRE1, PPRE2 with their enable bits; LATENCY; PLLM, PLLN,
\* PLLP, PLLSRC, PLLQ
NamedBits ==
    [cr |-> {0, 16, 24},
     cfgr |-> {0, 1} \cup (4 .. 7) \cup (10 .. 15),
     acr |-> 0 .. 2,
     pllcfgr |-> (0 .. 14) \cup {16, 17, 22} \cup (24 .. 27)]

\* Word v without the bits the call names in register r and without the
\* bits of r that hardware owns
Unnamed(r, v) == v \ (NamedBits[r] \cup ReadOnlyOf(r))

\* C28: every write of configure_clocks carries, in each bit it does not
\* name, what the register held (CSSON, HSEBYP, HSITRIM, PLLI2SON in CR;
\* MCO1, MCO2, the MCO prescalers, I2SSRC in CFGR; the cache and prefetch
\* bits in ACR; all but PLLM, PLLN, PLLP, PLLQ, PLLSRC in PLLCFGR), and so
\* each register differs from its content at entry in named bits only
C28_WritesKeepUnnamedBits ==
    /\ \A w \in Writes : Unnamed(w.reg, w.val) = Unnamed(w.reg, w.old)
    /\ pc # "idle" =>
          \A r \in DOMAIN NamedBits :
              Unnamed(r, RegNamed(r)) = Unnamed(r, entry[r])

\* A call has returned on registers that held CSSON and HSITRIM in CR,
\* MCO1 and the MCO2 prescaler in CFGR and the cache bits in ACR, all of
\* them still there
C28_Witness ==
    /\ pc = "done"
    /\ {7, 19} \subseteq entry.cr /\ {7, 19} \subseteq cr
    /\ {21, 22, 27, 29} \subseteq entry.cfgr /\ {21, 22, 27, 29} \subseteq cfgr
    /\ {8, 9, 10} \subseteq entry.acr /\ {8, 9, 10} \subseteq acr
    /\ \E w \in Writes : w.reg = "pllcfgr" /\ 29 \in w.val

\* The bits of the peripherals that calls have enabled so far in register
\* i of the ENR array of the given kind
EnabledBits(kind, i) ==
    {get_bit_index(e.p) : e \in {s \in Stores : s.kind = kind
                                                /\ get_bus(s.p) + 1 = i}}

\* C29: after any calls of enable_clock, in any order and nesting and with
\* repetitions, each ENR register holds its initial value or-ed with the
\* bits of the peripherals enabled on its bus, and nothing else
C29_EnrIsInitialOrEnabled ==
    /\ \A i \in 1 .. 3 : ahb_enr[i] = enr0.ahb[i] \cup EnabledBits("ahb", i)
    /\ \A i \in 1 .. 2 : apb_enr[i] = enr0.apb[i] \cup EnabledBits("apb", i)

\* Three calls have returned, two of them for the same peripheral, on
\* registers that started with other bits set
C29_Witness ==
    /\ thr.fg.pc = "returned" /\ thr.irq.pc = "returned"
    /\ irqs = 2
    /\ Len(SelectSeq(elog, LAMBDA e : e.e = "store")) = 3
    /\ \E i, j \in 1 .. Len(elog) :
          /\ i < j
          /\ elog[i].e = "store" /\ elog[j].e = "store"
          /\ elog[i].p = elog[j].p /\ elog[i].kind = elog[j].kind
    /\ enr0.ahb[1] = {1, 17, 31}
    /\ ahb_enr[1] # enr0.ahb[1]

----------------------------------------------------------------------------
(* stm32f4/rcc/mod.rs: the peripheral tables as declared, row by row        *)

\* The rows of the AhbPeripheral table: bus, idx, rst, clk, lp
AhbRows ==
    [GpioA |-> <<"Ahb1", 0, 1, 1, 1>>,
     GpioB |-> <<"Ahb1", 1, 1, 1, 1>>,
     GpioC |-> <<"Ahb1", 2, 1, 1, 1>>,
     GpioD |-> <<"Ahb1", 3, 1, 1, 1>>,
     GpioE |-> <<"Ahb1", 4, 1, 1, 1>>,
     GpioF |-> <<"Ahb1", 5, 1, 1, 1>>,
     GpioG |-> <<"Ahb1", 6, 1, 1, 1>>,
     GpioH |-> <<"Ahb1", 7, 1, 1, 1>>,
     GpioI |-> <<"Ahb1", 8, 1, 1, 1>>,
     GpioJ |-> <<"Ahb1", 9, 1, 1, 1>>,
     GpioK |-> <<"Ahb1", 10, 1, 1, 1>>,
     Crc |-> <<"Ahb1", 12, 1, 1, 1>>,
     FlashIface |-> <<"Ahb1", 15, 0, 0, 1>>,
     Sram1 |-> <<"Ahb1", 16, 0, 0, 1>>,
     Sram2 |-> <<"Ahb1", 17, 0, 0, 1>>,
     BackupSram |-> <<"Ahb1", 18, 0, 1, 1>>,
     Sram3 |-> <<"Ahb1", 19, 0, 0, 1>>,
     CcmDataRam |-> <<"Ahb1", 20, 0, 1, 0>>,
     Dma1 |-> <<"Ahb1", 21, 1, 1, 1>>,
     Dma2 |-> <<"Ahb1", 22, 1, 1, 1>>,
     Dma2d |-> <<"Ahb1", 23, 1, 1, 1>>,
     Ethernet |-> <<"Ahb1", 25, 1, 1, 1>>,
     EthernetTx |-> <<"Ahb1", 26, 0, 1, 1>>,
     EthernetRx |-> <<"Ahb1", 27, 0, 1, 1>>,
     EthernetPtp |-> <<"Ahb1", 28, 0, 1, 1>>,
     UsbOtgHs |-> <<"Ahb1", 29, 1, 1, 1>>,
     UsbOtgHsUlpi |-> <<"Ahb1", 30, 0, 1, 1>>,
     Dcmi |-> <<"Ahb2", 0, 1, 1, 1>>,
     Cryp |-> <<"Ahb2", 4, 1, 1, 1>>,
     Hash |-> <<"Ahb2", 5, 1, 1, 1>>,
     Rng |-> <<"Ahb2", 6, 1, 1, 1>>,
     UsbOtgFs |-> <<"Ahb2", 7, 1, 1, 1>>,
     Fsmc |-> <<"Ahb3", 0, 1, 1, 1>>]

\* The rows of the ApbPeripheral table: bus, idx, rst, clk, lp
ApbRows ==
    [Tim2 |-> <<"Apb1", 0, 1, 1, 1>>,
     Tim3 |-> <<"Apb1", 1, 1, 1, 1>>,
     Tim4 |-> <<"Apb1", 2, 1, 1, 1>>,
     Tim5 |-> <<"Apb1", 3, 1, 1, 1>>,
     Tim6 |-> <<"Apb1", 4, 1, 1, 1>>,
     Tim7 |-> <<"Apb1", 5, 1, 1, 1>>,
     Tim12 |-> <<"Apb1", 6, 1, 1, 1>>,
     Tim13 |-> <<"Apb1", 7, 1, 1, 1>>,
     Tim14 |-> <<"Apb1", 8, 1, 1, 1>>,
     Wwdg |-> <<"Apb1", 11, 1, 1, 1>>,
     Spi2 |-> <<"Apb1", 14, 1, 1, 1>>,
     Spi3 |-> <<"Apb1", 15, 1, 1, 1>>,
     Usart2 |-> <<"Apb1", 17, 1, 1, 1>>,
     Usart3 |-> <<"Apb1", 18, 1, 1, 1>>,
     Uart4 |-> <<"Apb1", 19, 1, 1, 1>>,
     Uart5 |-> <<"Apb1", 20, 1, 1, 1>>,
     I2c1 |-> <<"Apb1", 21, 1, 1, 1>>,
     I2c2 |-> <<"Apb1", 22, 1, 1, 1>>,
     I2c3 |-> <<"Apb1", 23, 1, 1, 1>>,
     Can1 |-> <<"Apb1", 25, 1, 1, 1>>,
     Can2 |-> <<"Apb1", 26, 1, 1, 1>>,
     Pwr |-> <<"Apb1", 28, 1, 1, 1>>,
     Dac |-> <<"Apb1", 29, 1, 1, 1>>,
     Uart7 |-> <<"Apb1", 30, 1, 1, 1>>,
     Uart8 |-> <<"Apb1", 31, 1, 1, 1>>,
     Tim1 |-> <<"Apb2", 0, 1, 1, 1>>,
     Tim8 |-> <<"Apb2", 1, 1, 1, 1>>,
     Usart1 |-> <<"Apb2", 4, 1, 1, 1>>,
     Usart6 |-> <<"Apb2", 5, 1, 1, 1>>,
     Adc1 |-> <<"Apb2", 8, 1, 1, 1>>,
     Adc2 |-> <<"Apb2", 9, 0, 1, 1>>,
     Adc3 |-> <<"Apb2", 10, 0, 1, 1>>,
     Sdio |-> <<"Apb2", 11, 1, 1, 1>>,
     Spi1 |-> <<"Apb2", 12, 1, 1, 1>>,
     Spi4 |-> <<"Apb2", 13, 1, 1, 1>>,
     Syscfg |-> <<"Apb2", 14, 1, 1, 1>>,
     Tim9 |-> <<"Apb2", 16, 1, 1, 1>>,
     Tim10 |-> <<"Apb2", 17, 1, 1, 1>>,
     Tim11 |-> <<"Apb2", 18, 1, 1, 1>>,
     Spi5 |-> <<"Apb2", 20, 1, 1, 1>>,
     Spi6 |-> <<"Apb2", 21, 1, 1, 1>>,
     Sai1 |-> <<"Apb2", 22, 1, 1, 1>>,
     Ltdc |-> <<"Apb2", 26, 1, 1, 1>>]

\* The five accessors applied to identity p return the row's entries
DecodesRow(p, row, buses) ==
    /\ get_bus(p) = buses[row[1]]
    /\ get_bit_index(p) = row[2]
    /\ has_rst(p) = (row[3] = 1)
    /\ has_enr(p) = (row[4] = 1)
    /\ has_lpenr(p) = (row[5] = 1)

\* Every identity of the two tables decodes to its row
RowsDecode ==
    /\ DOMAIN AhbPeripheral = DOMAIN AhbRows
    /\ DOMAIN ApbPeripheral = DOMAIN ApbRows
    /\ \A n \in DOMAIN AhbRows :
          /\ AhbRows[n][1] \in DOMAIN AhbBus
          /\ DecodesRow(AhbPeripheral[n], AhbRows[n], AhbBus)
    /\ \A n \in DOMAIN ApbRows :
          /\ ApbRows[n][1] \in DOMAIN ApbBus
          /\ DecodesRow(ApbPeripheral[n], ApbRows[n], ApbBus)

\* Every bit index is a bit of a 32-bit register
IndexInWord ==
    \A p \in AllPeripherals : get_bit_index(p) \in 0 .. 31

\* Within one table no two identities name the same bit of the same bus
NoSharedBit(table) ==
    \A m, n \in DOMAIN table :
        m # n => \/ get_bus(table[m]) # get_bus(table[n])
                 \/ get_bit_index(table[m]) # get_bit_index(table[n])

NoTwoShareBit == NoSharedBit(AhbPeripheral) /\ NoSharedBit(ApbPeripheral)

\* The buses the identities of each table decode to
AhbBuses == {get_bus(AhbPeripheral[n]) : n \in DOMAIN AhbPeripheral}

ApbBuses == {get_bus(ApbPeripheral[n]) : n \in DOMAIN ApbPeripheral}

\* C30: every AhbPeripheral and ApbPeripheral identity decodes to the table
\* row it was built from (bus, bit index and the three flags, none of them
\* disturbing another), its bit index lies in 0..31, its bus indexes an
\* existing register of its ENR array (three AHB registers, two APB ones),
\* and no two peripherals of one bus share a bit index.
C30_IdentityDecodesToRow ==
    /\ RowsDecode
    /\ IndexInWord
    /\ NoTwoShareBit
    /\ \A b \in AhbBuses : b < 3 /\ b + 1 \in DOMAIN ahb_enr
    /\ \A b \in ApbBuses : b < 2 /\ b + 1 \in DOMAIN apb_enr
    /\ \A t \in Threads :
          thr[t].pc = "returned" =>
              /\ get_bit_index(thr[t].p) \in 0 .. 31
              /\ get_bus(thr[t].p) + 1 \in
                     DOMAIN (IF thr[t].kind = "ahb" THEN ahb_enr ELSE apb_enr)

C30_Witness ==
    /\ thr.fg.pc = "returned"
    /\ thr.fg.kind = "ahb"
    /\ thr.fg.p = AhbPeripheral.UsbOtgHsUlpi
    /\ get_bus(thr.fg.p) = 0
    /\ get_bit_index(thr.fg.p) = 30
    /\ ~has_rst(thr.fg.p) /\ has_enr(thr.fg.p) /\ has_lpenr(thr.fg.p)
    /\ 30 \in ahb_enr[1]
    /\ 30 \notin enr0.ahb[1]

====
